---- MODULE Spec2Model ----
(***************************************************************************)
(* Inventory generation of scripts/managers/inventory_manager.py: the tree *)
(* builder, the content-diff writers for tree and host-variable files, the *)
(* orphan reconciler and the generate_inventories orchestrator.            *)
(*                                                                         *)
(* Strings of the program are TLA+ strings; "" is the empty string.  A     *)
(* text file is a sequence of lines, a line is a record                    *)
(* [tag, kind, val, t]: tag names the sort of line, kind/val its text and  *)
(* t the clock value of a "# Generated at:" line.                          *)
(***************************************************************************)
EXTENDS Integers, Sequences, FiniteSets, TLC

(***************************************************************************)
(* Bounds of the model.                                                    *)
(***************************************************************************)
MaxRows == 2
MaxEdits == 1
MaxRuns == 2
MaxTime == 1
MaxTreeHosts == 3
MaxWorkers == 2

(***************************************************************************)
(* Configuration (scripts/core/config.py).                                 *)
(***************************************************************************)
ENVIRONMENTS == {"production", "development"}
VALID_STATUS_VALUES == {"active", "decommissioned"}
VALID_INVENTORY_KEYS == {"hostname", "cname"}

\* location_codes of the configuration: code -> name and inventory file.
LocationCodes == [PRD |-> [name |-> "production", inventory_file |-> "production.yml"]]

\* str.upper() on the environment strings of the model.
Upper(s) == CASE s = "prd" -> "PRD"
              [] s = "production" -> "PRODUCTION"
              [] s = "development" -> "DEVELOPMENT"
              [] s = "staging" -> "STAGING"
              [] OTHER -> s

NoEnvInfo == [name |-> "", inventory_file |-> ""]

get_environment_info_from_code(code) ==
    IF Upper(code) \in DOMAIN LocationCodes THEN LocationCodes[Upper(code)] ELSE NoEnvInfo

\* f"{env}.yml"
YmlName(env) == CASE env = "production" -> "production.yml"
                  [] env = "development" -> "development.yml"
                  [] env = "staging" -> "staging.yml"
                  [] env = "PRD" -> "PRD.yml"
                  [] env = "prd" -> "prd.yml"
                  [] OTHER -> "other.yml"

(***************************************************************************)
(* Ordering of strings (code-point order, as sorted() and sort_keys use).  *)
(***************************************************************************)
SortedStrings == <<"", "1", "alias01", "cname", "db", "db01", "dc_1", "development",
                   "environment", "hostname", "mon", "production", "web", "web01">>

StrRank(s) == CHOOSE i \in 1..Len(SortedStrings) : SortedStrings[i] = s

\* Group names are prefix + value; the prefixes sort as below.
KindRank == [all |-> 1, app |-> 2, batch |-> 3, env |-> 4, product |-> 5, site |-> 6]

GroupLeq(a, b) ==
    \/ KindRank[a.kind] < KindRank[b.kind]
    \/ (a.kind = b.kind /\ StrRank(a.val) <= StrRank(b.val))

RECURSIVE SortGroups(_)
SortGroups(S) ==
    IF S = {} THEN <<>>
    ELSE LET m == CHOOSE a \in S : \A b \in S : GroupLeq(a, b)
         IN  <<m>> \o SortGroups(S \ {m})

RECURSIVE SortStrings(_)
SortStrings(S) ==
    IF S = {} THEN <<>>
    ELSE LET m == CHOOSE a \in S : \A b \in S : StrRank(a) <= StrRank(b)
         IN  <<m>> \o SortStrings(S \ {m})

(***************************************************************************)
(* Record model (scripts/core/models.py, Host).                            *)
(***************************************************************************)
\* lower-casing and separator normalisation of a raw attribute value.
Lower(s) == CASE s = "DC-1" -> "dc-1" [] s = "DC_1" -> "dc_1" [] OTHER -> s
ReplaceDash(s) == CASE s = "DC-1" -> "DC_1" [] s = "dc-1" -> "dc_1" [] OTHER -> s
Normalized(s) == ReplaceDash(Lower(s))

Group(kind, val) == [kind |-> kind, val |-> val]
AllGroup == Group("all", "")

get_inventory_key_value(host, inventory_key) ==
    IF inventory_key = "cname"
    THEN (IF host.cname # "" THEN host.cname ELSE host.hostname)
    ELSE (IF host.hostname # "" THEN host.hostname ELSE host.cname)

get_host_vars_filename(host, inventory_key) ==
    [stem |-> get_inventory_key_value(host, inventory_key), ext |-> "yml"]

is_active(host) == host.status = "active"

get_product_ids(host) == SelectSeq(host.products, LAMBDA p : p # "")

get_product_group_names(host) ==
    [i \in 1..Len(get_product_ids(host)) |-> Group("product", Normalized(get_product_ids(host)[i]))]

get_app_group_name(host) == Group("app", Normalized(host.application_service))

get_batch_group_name(host) == Group("batch", Normalized(host.batch_number))

\* Host.from_csv_row raises ValueError on an unsupported environment or status.
RowIsValid(row) ==
    /\ row.environment \in ENVIRONMENTS
    /\ row.status \in VALID_STATUS_VALUES

(***************************************************************************)
(* Tree builder.                                                           *)
(***************************************************************************)
EmptyGroup == [hosts |-> {}, children |-> {}]

\* `if g not in inventory: inventory[g] = {"hosts": {}, "children": {}}`
EnsureGroupReset(inventory, g) == (g :> EmptyGroup) @@ inventory

EnsureGroup(inventory, g) ==
    IF g \in DOMAIN inventory THEN inventory ELSE (g :> EmptyGroup) @@ inventory

\* inventory[parent]["children"][child] = {}
AddChild(inventory, parent, child) ==
    [inventory EXCEPT ![parent].children = @ \cup {child}]

\* inventory[g]["hosts"][host_key] = {}
AddHost(inventory, g, host_key) ==
    [inventory EXCEPT ![g].hosts = @ \cup {host_key}]

\* a group below the environment group is registered without a host
AddGroupMemberNoHost(inventory, parent, g, host_key) ==
    IF parent = AllGroup
    THEN AddHost(AddChild(EnsureGroup(inventory, g), parent, g), g, host_key)
    ELSE AddChild(EnsureGroup(inventory, g), parent, g)

\* a group registered again starts empty
AddGroupMemberReset(inventory, parent, g, host_key) ==
    AddHost(AddChild(EnsureGroupReset(inventory, g), parent, g), g, host_key)

\* register group g under parent and put the host in it
AddGroupMember(inventory, parent, g, host_key) ==
    AddHost(AddChild(EnsureGroup(inventory, g), parent, g), g, host_key)

RECURSIVE AddProductGroups(_, _, _, _)
AddProductGroups(inventory, app_group, prod_groups, host_key) ==
    IF prod_groups = <<>> THEN inventory
    ELSE AddProductGroups(AddGroupMember(inventory, app_group, Head(prod_groups), host_key),
                          app_group, Tail(prod_groups), host_key)

\* product groups made for every host that has product ids
AddHostToInventoryUnguarded(inventory, host, environment, inventory_key) ==
    IF host.environment # environment THEN inventory
    ELSE
      LET host_key == get_inventory_key_value(host, inventory_key)
          env_group_name == Group("env", environment)
          inv1 == AddGroupMember(inventory, AllGroup, env_group_name, host_key)
          app_group == get_app_group_name(host)
          withApp == IF host.application_service # ""
                     THEN AddGroupMember(inv1, env_group_name, app_group, host_key)
                     ELSE inv1
          parent == IF host.application_service # "" THEN app_group ELSE env_group_name
          inv2 == IF get_product_ids(host) # <<>>
                  THEN AddProductGroups(withApp, parent,
                                        get_product_group_names(host), host_key)
                  ELSE withApp
          inv3 == IF host.site_code # ""
                  THEN AddGroupMember(inv2, env_group_name,
                                      Group("site", ReplaceDash(Lower(host.site_code))), host_key)
                  ELSE inv2
          inv4 == IF host.batch_number # ""
                  THEN AddGroupMember(inv3, env_group_name, get_batch_group_name(host), host_key)
                  ELSE inv3
      IN  inv4

\* product groups registered under the environment group
AddHostToInventoryFlat(inventory, host, environment, inventory_key) ==
    IF host.environment # environment THEN inventory
    ELSE
      LET host_key == get_inventory_key_value(host, inventory_key)
          env_group_name == Group("env", environment)
          inv1 == AddGroupMember(inventory, AllGroup, env_group_name, host_key)
          app_group == get_app_group_name(host)
          inv2 == IF host.application_service # ""
                  THEN LET withApp == AddGroupMember(inv1, env_group_name, app_group, host_key)
                       IN  IF get_product_ids(host) # <<>>
                           THEN AddProductGroups(withApp, env_group_name,
                                                 get_product_group_names(host), host_key)
                           ELSE withApp
                  ELSE inv1
          inv3 == IF host.site_code # ""
                  THEN AddGroupMember(inv2, env_group_name,
                                      Group("site", ReplaceDash(Lower(host.site_code))), host_key)
                  ELSE inv2
          inv4 == IF host.batch_number # ""
                  THEN AddGroupMember(inv3, env_group_name, get_batch_group_name(host), host_key)
                  ELSE inv3
      IN  inv4

\* the body of the `for host in hosts` loop
AddHostToInventory(inventory, host, environment, inventory_key) ==
    IF host.environment # environment THEN inventory
    ELSE
      LET host_key == get_inventory_key_value(host, inventory_key)
          env_group_name == Group("env", environment)
          inv1 == AddGroupMember(inventory, AllGroup, env_group_name, host_key)
          app_group == get_app_group_name(host)
          inv2 == IF host.application_service # ""
                  THEN LET withApp == AddGroupMember(inv1, env_group_name, app_group, host_key)
                       IN  IF get_product_ids(host) # <<>>
                           THEN AddProductGroups(withApp, app_group,
                                                 get_product_group_names(host), host_key)
                           ELSE withApp
                  ELSE inv1
          inv3 == IF host.site_code # ""
                  THEN AddGroupMember(inv2, env_group_name,
                                      Group("site", ReplaceDash(Lower(host.site_code))), host_key)
                  ELSE inv2
          inv4 == IF host.batch_number # ""
                  THEN AddGroupMember(inv3, env_group_name, get_batch_group_name(host), host_key)
                  ELSE inv3
      IN  inv4

RECURSIVE FoldHosts(_, _, _, _)
FoldHosts(inventory, hosts, environment, inventory_key) ==
    IF hosts = <<>> THEN inventory
    ELSE FoldHosts(AddHostToInventory(inventory, Head(hosts), environment, inventory_key),
                   Tail(hosts), environment, inventory_key)

\* inventory["all"] = {"children": {}}: "all" has no "hosts" key, which
\* data.get("hosts", {}) reads as the empty mapping.
build_environment_inventory(hosts, environment, inventory_key) ==
    FoldHosts((AllGroup :> EmptyGroup), hosts, environment, inventory_key)

(***************************************************************************)
(* Text of the generated files.                                            *)
(***************************************************************************)
Line(tag, kind, val, t) == [tag |-> tag, kind |-> kind, val |-> val, t |-> t]
BlankLine == Line("blank", "", "", 0)

RECURSIVE Concat(_)
Concat(seqs) == IF seqs = <<>> THEN <<>> ELSE Head(seqs) \o Concat(Tail(seqs))

\* yaml.dump of one {"hosts": {...}, "children": {...}} mapping: keys sorted,
\* every member dumped as `name: {}`, an empty mapping as `{}`.
DumpGroup(g, data) ==
    LET children == SortGroups(data.children)
        hosts == SortStrings(data.hosts)
    IN  <<Line("group", g.kind, g.val, 0)>>
        \o (IF data.children = {} THEN <<Line("children_empty", "", "", 0)>>
            ELSE <<Line("children", "", "", 0)>>
                 \o [i \in 1..Len(children) |-> Line("child", children[i].kind, children[i].val, 0)])
        \o (IF data.hosts = {} THEN <<Line("hosts_empty", "", "", 0)>>
            ELSE <<Line("hosts", "", "", 0)>>
                 \o [i \in 1..Len(hosts) |-> Line("host", "", hosts[i], 0)])

\* yaml.dump(filtered_inventory, default_flow_style=False, sort_keys=True)
DumpInventory(filtered) ==
    IF DOMAIN filtered = {} THEN <<Line("empty_map", "", "", 0)>>
    ELSE LET groups == SortGroups(DOMAIN filtered)
         IN  Concat([i \in 1..Len(groups) |-> DumpGroup(groups[i], filtered[groups[i]])])

\* "Remove groups with no hosts"
FilterInventoryKeepAll(inventory) == inventory

FilterInventory(inventory) ==
    LET kept == {g \in DOMAIN inventory : inventory[g].hosts # {}}
    IN  [g \in kept |-> inventory[g]]

(***************************************************************************)
(* Files.  mtime is the clock value of the last write; garbled marks bytes *)
(* that do not decode, so that reading the file raises.                    *)
(***************************************************************************)
NoFile == [exists |-> FALSE, lines |-> <<>>, mtime |-> 0, garbled |-> FALSE]
FileOf(lines, now_) == [exists |-> TRUE, lines |-> lines, mtime |-> now_, garbled |-> FALSE]

\* first index of lines satisfying a test (given as its set of indexes), 0 when none
FirstIndex(indexes) ==
    IF indexes = {} THEN 0
    ELSE CHOOSE i \in indexes : \A j \in indexes : i <= j

IsTimestampLine(lines, i) == lines[i].tag = "generated_at"

\* a blank line directly after a "# Generated at:" line
IsTreeHeaderEnd(lines, i) ==
    lines[i].tag = "blank" /\ i > 1 /\ lines[i - 1].tag = "generated_at"

\* a blank line that is not the first line
IsHostVarsHeaderEnd(lines, i) == lines[i].tag = "blank" /\ i > 1

\* what the reading part of write_inventory_file extracts from the file
ReadTree(file) ==
    LET readable == file.exists /\ ~file.garbled
        ts == IF readable THEN FirstIndex({i \in 1..Len(file.lines) : IsTimestampLine(file.lines, i)}) ELSE 0
        hdr == IF readable THEN FirstIndex({i \in 1..Len(file.lines) : IsTreeHeaderEnd(file.lines, i)}) ELSE 0
    IN  [has_timestamp |-> ts # 0,
         existing_timestamp |-> IF ts # 0 THEN file.lines[ts] ELSE BlankLine,
         has_content |-> hdr # 0,
         existing_yaml_content |-> IF hdr # 0 THEN SubSeq(file.lines, hdr + 1, Len(file.lines))
                                   ELSE <<>>]

TreeHeader(environment, timestamp_line) ==
    << Line("banner", "", "rule", 0),
       Line("banner", "", "auto-generated", 0),
       Line("banner", "", "generated-by", 0),
       Line("banner", "", "overwritten", 0),
       Line("banner", "", "rule", 0),
       Line("title", environment, "Environment Inventory", 0),
       Line("banner", "", "generated-from", 0),
       timestamp_line,
       BlankLine >>

\* keeps the recorded timestamp whatever the content
TimestampLineKept(old, new_yaml_content, now_) ==
    IF old.has_timestamp THEN old.existing_timestamp ELSE Line("generated_at", "", "", now_)

\* always a fresh timestamp
TimestampLineFresh(old, new_yaml_content, now_) == Line("generated_at", "", "", now_)

\* the timestamp line write_inventory_file puts in the header
TimestampLine(old, new_yaml_content, now_) ==
    LET content_changed == ~(old.has_content /\ old.existing_yaml_content = new_yaml_content)
    IN  IF ~content_changed /\ old.has_timestamp
        THEN old.existing_timestamp
        ELSE Line("generated_at", "", "", now_)

\* the file write_inventory_file leaves at output_file
write_inventory_file(inventory, file, environment, now_) ==
    LET new_yaml_content == DumpInventory(FilterInventory(inventory))
        timestamp_line == TimestampLine(ReadTree(file), new_yaml_content, now_)
    IN  FileOf(TreeHeader(environment, timestamp_line) \o new_yaml_content, now_)

(***************************************************************************)
(* Host-variable files.                                                    *)
(***************************************************************************)
\* field_mappings.host_vars of the configuration
HostVarFields == {"hostname", "cname", "environment"}

HostVarValue(host, field) ==
    CASE field = "hostname" -> host.hostname
      [] field = "cname" -> host.cname
      [] field = "environment" -> host.environment

\* yaml.dump(host_vars, default_flow_style=False, sort_keys=True)
DumpHostVars(host) ==
    LET fields == SortStrings(HostVarFields)
    IN  IF HostVarFields = {} THEN <<Line("empty_map", "", "", 0)>>
        ELSE [i \in 1..Len(fields) |-> Line("field", fields[i], HostVarValue(host, fields[i]), 0)]

HostVarsHeader(primary_id) ==
    << Line("doc_start", "", "", 0),
       Line("hv_title", "", primary_id, 0),
       Line("hv_header", "", "", 0),
       BlankLine >>

should_write_always(file, new_yaml_content) == TRUE

should_write_if_missing(file, new_yaml_content) == ~file.exists

\* the decision of create_host_vars
should_write(file, new_yaml_content) ==
    IF file.exists
    THEN IF file.garbled THEN TRUE
         ELSE LET yaml_start == FirstIndex({i \in 1..Len(file.lines) : IsHostVarsHeaderEnd(file.lines, i)})
              IN  IF yaml_start # 0
                  THEN SubSeq(file.lines, yaml_start + 1, Len(file.lines)) # new_yaml_content
                  ELSE TRUE
    ELSE TRUE

\* the file create_host_vars leaves at host_vars_file
create_host_vars(host, file, inventory_key, now_) ==
    LET primary_id == get_inventory_key_value(host, inventory_key)
        new_yaml_content == DumpHostVars(host)
    IN  IF should_write(file, new_yaml_content)
        THEN FileOf(HostVarsHeader(primary_id) \o new_yaml_content, now_)
        ELSE file

(***************************************************************************)
(* Loading the records (load_csv_data, InventoryManager.load_hosts).       *)
(***************************************************************************)
\* str.startswith("#") on the names of the model
StartsWithHash(s) == s = "#old"

PrimaryIdHostnameOnly(row, inventory_key) == row.hostname

\* the identifier load_csv_data requires of a row
PrimaryId(row, inventory_key) ==
    IF inventory_key = "cname"
    THEN (IF row.cname # "" THEN row.cname ELSE row.hostname)
    ELSE (IF row.hostname # "" THEN row.hostname ELSE row.cname)

RowIsLoaded(row, inventory_key) ==
    ~(PrimaryId(row, inventory_key) = "" \/ StartsWithHash(PrimaryId(row, inventory_key)))

load_csv_data(rows, inventory_key) ==
    SelectSeq(rows, LAMBDA row : RowIsLoaded(row, inventory_key))

\* row_data["environment"] = env_info["name"] when the value is a known code
MapEnvironmentCode(row) ==
    IF row.environment # "" /\ get_environment_info_from_code(row.environment) # NoEnvInfo
    THEN [row EXCEPT !.environment = get_environment_info_from_code(row.environment).name]
    ELSE row

load_hosts_unchecked(rows, inventory_key) ==
    LET csv_data == load_csv_data(rows, inventory_key)
    IN  [i \in 1..Len(csv_data) |-> MapEnvironmentCode(csv_data[i])]

load_hosts(rows, inventory_key) ==
    LET csv_data == load_csv_data(rows, inventory_key)
        mapped == [i \in 1..Len(csv_data) |-> MapEnvironmentCode(csv_data[i])]
    IN  SelectSeq(mapped, RowIsValid)

(***************************************************************************)
(* Reconciler (InventoryManager.cleanup_orphaned_host_vars).               *)
(***************************************************************************)
SeqRange(seq) == {seq[i] : i \in 1..Len(seq)}

\* the names of the active records only
valid_identifiers_active(hosts) ==
    ({h.hostname : h \in {x \in SeqRange(hosts) : is_active(x)}}
       \cup {h.cname : h \in {x \in SeqRange(hosts) : is_active(x)}}) \ {""}

\* the primary names only
valid_identifiers_hostnames(hosts) == {h.hostname : h \in SeqRange(hosts)} \ {""}

valid_identifiers(hosts) ==
    ({h.hostname : h \in SeqRange(hosts)} \cup {h.cname : h \in SeqRange(hosts)}) \ {""}

orphaned_files_all(dir, hosts) == {n \in DOMAIN dir : dir[n].exists /\ n.ext = "yml"}

\* the *.yml files of the directory whose stem is no valid identifier
orphaned_files(dir, hosts) ==
    {n \in DOMAIN dir : dir[n].exists /\ n.ext = "yml" /\ n.stem \notin valid_identifiers(hosts)}

cleanup_orphaned_host_vars_always(dir, hosts, dry, enabled, failing) ==
    LET removed == orphaned_files(dir, hosts) \ failing
    IN  IF ~enabled THEN [count |-> 0, dir |-> dir]
        ELSE [count |-> Cardinality(removed),
              dir |-> [n \in DOMAIN dir |-> IF n \in removed THEN NoFile ELSE dir[n]]]

cleanup_orphaned_host_vars_aborting(dir, hosts, dry, enabled, failing) ==
    LET orphans == orphaned_files(dir, hosts)
        removed == IF orphans \cap failing = {} THEN orphans ELSE {}
    IN  IF ~enabled THEN [count |-> 0, dir |-> dir]
        ELSE IF dry THEN [count |-> Cardinality(orphans), dir |-> dir]
        ELSE [count |-> Cardinality(removed),
              dir |-> [n \in DOMAIN dir |-> IF n \in removed THEN NoFile ELSE dir[n]]]

\* the pass is left out
cleanup_orphaned_host_vars_skipped(dir, hosts, dry, enabled, failing) ==
    [count |-> 0, dir |-> dir]

\* the directory and the count cleanup_orphaned_host_vars leaves
cleanup_orphaned_host_vars(dir, hosts, dry, enabled, failing) ==
    LET orphans == orphaned_files(dir, hosts)
        removed == orphans \ failing
    IN  IF ~enabled THEN [count |-> 0, dir |-> dir]
        ELSE IF dry THEN [count |-> Cardinality(orphans), dir |-> dir]
        ELSE [count |-> Cardinality(removed),
              dir |-> [n \in DOMAIN dir |-> IF n \in removed THEN NoFile ELSE dir[n]]]

(***************************************************************************)
(* State.                                                                  *)
(***************************************************************************)
VARIABLES
    csv,                  \* rows of the CSV source file
    csv_exists,           \* the CSV source file is there
    inventory_key,        \* InventoryManager.config.inventory_key
    cleanup_enabled,      \* features.cleanup_orphaned_on_generate
    unlink_fails,         \* host-variable files whose unlink() raises
    write_fails,          \* tree files whose open("w") raises OSError
    host_vars_write_fails, \* host-variable files whose open("w") raises OSError
    tree_files,           \* inventory directory: file name -> file
    host_vars_dir,        \* host_vars directory: [stem, ext] -> file
    now,                  \* the clock (datetime.now(), mtime)
    pc,                   \* position of the generate_inventories call
    target_environments,  \* generate_inventories: target_environments
    dry_run,              \* generate_inventories: dry_run
    hosts,                \* generate_inventories: hosts
    env_index,            \* position of `for env in target_environments`
    host_index,           \* position of `for host in active_hosts`
    inventory,            \* _generate_inventory_file: inventory
    generated_files,      \* generate_inventories: generated_files
    orphaned_count,       \* generate_inventories: orphaned_count
    result,               \* the value the last call returned
    runs,                 \* number of calls started
    edits,                \* number of changes made to the source or the output
    history,              \* what the properties need of the past
    workers               \* concurrent calls: worker -> its position and locals

configVars == <<inventory_key, cleanup_enabled, unlink_fails, write_fails,
                host_vars_write_fails>>
diskVars == <<tree_files, host_vars_dir>>
callVars == <<target_environments, dry_run, hosts, env_index, host_index, inventory,
              generated_files, orphaned_count>>
vars == <<csv, csv_exists, configVars, diskVars, now, pc, callVars, result, runs, edits, history,
          workers>>

(***************************************************************************)
(* Values of the model.                                                    *)
(***************************************************************************)
Row(hostname, cname, environment, status, application_service, products, site_code, batch_number) ==
    [hostname |-> hostname, cname |-> cname, environment |-> environment, status |-> status,
     application_service |-> application_service, products |-> products,
     site_code |-> site_code, batch_number |-> batch_number]

Hostnames == {"", "web01", "db01", "#old"}
Cnames == {"", "alias01"}
EnvironmentValues == {"production", "development", "staging", "PRD"}
Applications == {"", "web", "db"}
ProductLists == {<<>>, <<"web">>, <<"web", "mon">>, <<"", "mon">>}
SiteCodes == {"", "DC-1", "dc_1"}
BatchNumbers == {"", "1"}

Web01 == Row("web01", "", "production", "active", "web", <<"web", "mon">>, "", "")
Db01 == Row("db01", "alias01", "production", "active", "db", <<>>, "DC-1", "1")
Alias01 == Row("", "alias01", "development", "active", "", <<"web">>, "", "")
Db01Dev == Row("db01", "", "development", "active", "web", <<"web">>, "dc_1", "")
Retired == Row("web01", "", "production", "decommissioned", "web", <<"mon">>, "dc_1", "1")
Plain == Row("db01", "", "production", "active", "", <<>>, "", "")
Unsupported == Row("web01", "", "staging", "active", "web", <<>>, "", "")
DbMon == Row("db01", "alias01", "production", "active", "db", <<"mon">>, "dc_1", "")

SeedCsvs == { <<Web01, Db01>>, <<Web01, Alias01>>, <<Db01, Retired>>, <<Alias01, Db01Dev>>, <<Db01>> }

TreeFileNames == {"production.yml", "development.yml"}
HostVarsNames == {[stem |-> s, ext |-> "yml"] : s \in {"web01", "db01", "alias01", "old01"}}
                 \cup {[stem |-> "old01", ext |-> "bak"]}

ConfigEnvironments == <<"production", "development">>
EnvironmentArgs == {<<>>, <<"PRD">>}

NoInventory == (AllGroup :> EmptyGroup)
NoResult == [status |-> "none", error |-> "", generated_files |-> <<>>,
             orphaned_files_removed |-> 0, dry_run |-> FALSE]

\* the error results of generate_inventories
SourceNotFound == "CSV source file not found"
NoValidHosts == "Failed to generate inventories: No valid hosts found in CSV file"
\* no result is returned
ErrorResultNone(error, dry) == NoResult

ErrorResult(error, dry) ==
    [status |-> "error", error |-> error, generated_files |-> <<>>,
     orphaned_files_removed |-> 0, dry_run |-> dry]

\* no concurrent call
NoWorkers == <<>>

\* GenerateCommand.execute: the constructor of InventoryManager raises
\* FileNotFoundError when the source is missing; otherwise the result of
\* generate_inventories is wrapped in CommandResult(success=True), whatever
\* its status
execute(source_found, generation_result) ==
    IF ~source_found
    THEN [success |-> FALSE, error |-> "CSV file not found",
          generated_files |-> <<>>]
    ELSE [success |-> TRUE, error |-> "",
          generated_files |-> generation_result.generated_files]

\* GenerateCommand._dry_run_generate: would_generate of the result, counted
\* from the environment values of the loaded records; the target
\* environments are args.environments, or all environments with records
dry_run_generate(args_environments, loaded) ==
    LET env_stats == [e \in {h.environment : h \in SeqRange(loaded)} |->
                         [active |-> Cardinality({i \in 1..Len(loaded) :
                                        loaded[i].environment = e /\ is_active(loaded[i])})]]
        counted == IF args_environments = <<>> THEN {}
                   ELSE {i \in 1..Len(args_environments) :
                            args_environments[i] \in DOMAIN env_stats}
    IN  IF args_environments = <<>>
        THEN [inventory_files |-> Cardinality(DOMAIN env_stats),
              host_vars_files |-> Cardinality({i \in 1..Len(loaded) : is_active(loaded[i])})]
        ELSE [inventory_files |-> Cardinality(counted),
              host_vars_files |->
                 Cardinality({<<i, j>> \in counted \X (1..Len(loaded)) :
                                 /\ loaded[j].environment = args_environments[i]
                                 /\ is_active(loaded[j])})]

\* the bytes of the output directories, without the modification times
Bytes(file) == [exists |-> file.exists, lines |-> file.lines, garbled |-> file.garbled]
DiskBytes == [tree |-> [f \in TreeFileNames |-> Bytes(tree_files[f])],
              host_vars |-> [n \in HostVarsNames |-> Bytes(host_vars_dir[n])]]

NoHistory == [snapshot |-> [tree |-> [f \in TreeFileNames |-> Bytes(NoFile)],
                            host_vars |-> [n \in HostVarsNames |-> Bytes(NoFile)]],
              start_time |-> 0,
              args |-> <<>>,
              last_run |-> [environments |-> <<>>, dry_run |-> FALSE, status |-> "none"],
              repeat |-> FALSE,
              changes |-> 0,
              edited |-> [row |-> 0, field |-> ""],
              one_edit |-> [row |-> 0, field |-> ""],
              host_vars_calls |-> {},
              host_vars_raised |-> {}]

(***************************************************************************)
(* Orchestrator (InventoryManager.generate_inventories).                   *)
(***************************************************************************)
StaleFile == FileOf(HostVarsHeader("old01") \o <<Line("field", "hostname", "old01", 0)>>, 0)

Init ==
    /\ csv \in SeedCsvs
    /\ csv_exists = TRUE
    /\ inventory_key \in VALID_INVENTORY_KEYS
    /\ cleanup_enabled \in BOOLEAN
    /\ unlink_fails \in {{}, {[stem |-> "old01", ext |-> "yml"]}}
    /\ (~cleanup_enabled => unlink_fails = {})
    /\ write_fails = {}
    /\ host_vars_write_fails = {}
    /\ workers = NoWorkers
    /\ tree_files = [f \in TreeFileNames |-> NoFile]
    /\ host_vars_dir = [n \in HostVarsNames |-> IF n.stem = "old01" THEN StaleFile ELSE NoFile]
    /\ now = 0
    /\ pc = "idle"
    /\ target_environments = <<>>
    /\ dry_run = FALSE
    /\ hosts = <<>>
    /\ env_index = 0
    /\ host_index = 0
    /\ inventory = NoInventory
    /\ generated_files = <<>>
    /\ orphaned_count = 0
    /\ result = NoResult
    /\ runs = 0
    /\ edits = 0
    /\ history = NoHistory

\* the name and the file of a requested environment
EnvName(env) ==
    IF get_environment_info_from_code(env) # NoEnvInfo
    THEN get_environment_info_from_code(env).name ELSE env

InventoryFilename(env) ==
    IF get_environment_info_from_code(env) # NoEnvInfo
    THEN get_environment_info_from_code(env).inventory_file ELSE YmlName(env)

EnvHostsAll(all_hosts, env) == all_hosts

\* an environment without a record is given the records of the others
EnvHostsOrAll(all_hosts, env) ==
    IF \E i \in 1..Len(all_hosts) :
          all_hosts[i].environment = env \/ all_hosts[i].environment = EnvName(env)
    THEN SelectSeq(all_hosts, LAMBDA h : h.environment = env \/ h.environment = EnvName(env))
    ELSE all_hosts

\* env_hosts = [h for h in hosts if h.environment == env or h.environment == env_name]
EnvHosts(all_hosts, env) ==
    SelectSeq(all_hosts, LAMBDA h : h.environment = env \/ h.environment = EnvName(env))

ActiveHostsAll(env_hosts) == env_hosts

\* active_hosts = [h for h in hosts if h.is_active]
ActiveHosts(env_hosts) == SelectSeq(env_hosts, is_active)

\* generate_inventories(environments, dry_run) is called
Generate(environments, dry) ==
    /\ pc = "idle"
    /\ runs < MaxRuns
    /\ pc' = "load"
    /\ runs' = runs + 1
    /\ target_environments' = IF environments = <<>> THEN ConfigEnvironments ELSE environments
    /\ dry_run' = dry
    /\ hosts' = <<>>
    /\ env_index' = 0
    /\ host_index' = 0
    /\ inventory' = NoInventory
    /\ generated_files' = <<>>
    /\ orphaned_count' = 0
    /\ result' = NoResult
    /\ history' = [history EXCEPT
                     !.snapshot = DiskBytes,
                     !.start_time = now,
                     !.args = environments,
                     !.host_vars_calls = {},
                     !.host_vars_raised = {},
                     !.repeat = /\ history.last_run.status = "success"
                                /\ ~history.last_run.dry_run
                                /\ ~dry
                                /\ history.last_run.environments = target_environments'
                                /\ history.changes = 0,
                     !.one_edit = IF /\ history.last_run.status = "success"
                                     /\ ~history.last_run.dry_run
                                     /\ ~dry
                                     /\ history.last_run.environments = target_environments'
                                     /\ history.changes = 1
                                  THEN history.edited ELSE [row |-> 0, field |-> ""]]
    /\ UNCHANGED <<csv, csv_exists, configVars, workers, diskVars, now, edits>>

\* hosts = self.load_hosts(); a missing source (FileNotFoundError) and no
\* valid host (ValueError) are the fatal errors
LoadHosts ==
    /\ pc = "load"
    /\ hosts' = IF csv_exists THEN load_hosts(csv, inventory_key) ELSE <<>>
    /\ IF hosts' = <<>>
       THEN /\ pc' = "idle"
            /\ result' = ErrorResult(IF csv_exists THEN NoValidHosts ELSE SourceNotFound,
                                     dry_run)
            /\ history' = [history EXCEPT
                             !.last_run = [environments |-> target_environments,
                                           dry_run |-> dry_run, status |-> "error"],
                             !.changes = 0]
       ELSE /\ pc' = "cleanup"
            /\ UNCHANGED <<result, history>>
    /\ UNCHANGED <<csv, csv_exists, configVars, workers, diskVars, now, target_environments, dry_run, env_index,
                   host_index, inventory, generated_files, orphaned_count, runs, edits>>

\* orphaned_count = self.cleanup_orphaned_host_vars(hosts, dry_run)
CleanupOrphans ==
    /\ pc = "cleanup"
    /\ LET done == cleanup_orphaned_host_vars(host_vars_dir, hosts, dry_run,
                                              cleanup_enabled, unlink_fails)
       IN  /\ host_vars_dir' = done.dir
           /\ orphaned_count' = done.count
    /\ pc' = "environment"
    /\ env_index' = 1
    /\ UNCHANGED <<csv, csv_exists, configVars, workers, tree_files, now, target_environments, dry_run, hosts,
                   host_index, inventory, generated_files, result, runs, edits, history>>

\* head of `for env in target_environments`: an environment without hosts
\* and a dry run go on to the next environment
EnterEnvironment ==
    /\ pc = "environment"
    /\ env_index <= Len(target_environments)
    /\ LET env == target_environments[env_index]
       IN  IF EnvHosts(hosts, env) = <<>> \/ dry_run
           THEN /\ env_index' = env_index + 1
                /\ UNCHANGED <<pc, host_index>>
           ELSE /\ pc' = "host_vars"
                /\ host_index' = 1
                /\ UNCHANGED env_index
    /\ UNCHANGED <<csv, csv_exists, configVars, workers, diskVars, now, target_environments, dry_run, hosts,
                   inventory, generated_files, orphaned_count, result, runs, edits, history>>

NextEnvironmentAborting(index, environments, raised) ==
    IF raised THEN Len(environments) + 1 ELSE index + 1

\* the position of the loop after an environment: `continue` in the except
\* clause as after a generated file
NextEnvironment(index, environments, raised) == index + 1

\* the OSError of a host-variable write is swallowed and the loop over the
\* hosts goes on
AfterCreateHostVarsSwallowed(raised) == "host_vars"

\* where _generate_inventory_file goes on after a create_host_vars call: an
\* OSError leaves the try block for the `except OSError: raise` clause, and
\* generate_inventories catches it and continues with the next environment
AfterCreateHostVars(raised) == IF raised THEN "environment" ELSE "host_vars"

\* _generate_inventory_file: self.create_host_vars(host, host_vars_dir); the
\* open("w") of a file that has to be written may raise OSError
CreateHostVars ==
    /\ pc = "host_vars"
    /\ LET env == target_environments[env_index]
           active_hosts == ActiveHosts(EnvHosts(hosts, env))
       IN  /\ host_index <= Len(active_hosts)
           /\ LET host == active_hosts[host_index]
                  name == get_host_vars_filename(host, inventory_key)
                  raised == /\ name \in host_vars_write_fails
                            /\ should_write(host_vars_dir[name], DumpHostVars(host))
              IN  /\ host_vars_dir' = [host_vars_dir EXCEPT
                        ![name] = IF raised THEN @
                                  ELSE create_host_vars(host, @, inventory_key, now)]
                  /\ pc' = AfterCreateHostVars(raised)
                  /\ IF pc' = "host_vars"
                     THEN /\ host_index' = host_index + 1
                          /\ UNCHANGED env_index
                     ELSE /\ env_index' = NextEnvironment(env_index, target_environments, TRUE)
                          /\ UNCHANGED host_index
                  /\ history' = [history EXCEPT
                        !.host_vars_calls = @ \cup {host},
                        !.host_vars_raised = IF raised THEN @ \cup {env} ELSE @]
    /\ UNCHANGED <<csv, csv_exists, configVars, workers, tree_files, now, target_environments, dry_run, hosts,
                   inventory, generated_files, orphaned_count, result, runs, edits>>

\* _generate_inventory_file: build_environment_inventory, write_inventory_file;
\* an OSError raised by the write is caught by the loop of
\* generate_inventories, which goes on with the next environment
WriteInventory ==
    /\ pc = "host_vars"
    /\ LET env == target_environments[env_index]
           active_hosts == ActiveHosts(EnvHosts(hosts, env))
           output_file == InventoryFilename(env)
       IN  /\ host_index > Len(active_hosts)
           /\ inventory' = build_environment_inventory(active_hosts, EnvName(env), inventory_key)
           /\ IF output_file \in write_fails
              THEN UNCHANGED <<tree_files, generated_files>>
              ELSE /\ tree_files' = [tree_files EXCEPT
                        ![output_file] = write_inventory_file(inventory', @, EnvName(env), now)]
                   /\ generated_files' = Append(generated_files, output_file)
           /\ env_index' = NextEnvironment(env_index, target_environments,
                                           output_file \in write_fails)
    /\ pc' = "environment"
    /\ UNCHANGED <<csv, csv_exists, configVars, workers, host_vars_dir, now, target_environments, dry_run, hosts,
                   host_index, orphaned_count, result, runs, edits, history>>

\* _generate_inventory_file: self.stats.application_groups and
\* self.stats.product_groups are assigned from the tree just built, so the
\* result carries the counts of the tree built last
application_groups(inv) == Cardinality({g \in DOMAIN inv : g.kind = "app"})
product_groups(inv) == Cardinality({g \in DOMAIN inv : g.kind = "product"})

\* the return of generate_inventories after the last environment
Aggregate ==
    /\ pc = "environment"
    /\ env_index > Len(target_environments)
    /\ pc' = "idle"
    /\ result' = [status |-> "success", error |-> "", generated_files |-> generated_files,
                  orphaned_files_removed |-> orphaned_count, dry_run |-> dry_run]
    /\ history' = [history EXCEPT
                     !.last_run = [environments |-> target_environments,
                                   dry_run |-> dry_run, status |-> "success"],
                     !.changes = 0]
    /\ UNCHANGED <<csv, csv_exists, configVars, workers, diskVars, now, callVars, runs, edits>>

(***************************************************************************)
(* Environment of the program: the clock, the operator who edits the CSV   *)
(* source, and damage done to the generated files between two calls.       *)
(***************************************************************************)
Tick ==
    /\ pc = "idle"
    /\ now < MaxTime
    /\ now' = now + 1
    /\ UNCHANGED <<csv, csv_exists, configVars, workers, diskVars, pc, callVars, result, runs, edits, history>>

FieldValues == [hostname |-> Hostnames, cname |-> Cnames, environment |-> EnvironmentValues,
                status |-> VALID_STATUS_VALUES, application_service |-> Applications,
                products |-> ProductLists, site_code |-> SiteCodes,
                batch_number |-> BatchNumbers]

GroupingFields == {"application_service", "products", "site_code", "batch_number"}

\* a change is made between two calls, at most one between two calls
MayChange ==
    /\ pc = "idle"
    /\ runs >= 1
    /\ runs < MaxRuns
    /\ edits < MaxEdits
    /\ history.changes = 0

\* the source file is there to be edited
MayEdit == MayChange /\ csv_exists

Changed(i, field) ==
    [history EXCEPT !.changes = @ + 1, !.edited = [row |-> i, field |-> field]]

EditCsv(i, field, value) ==
    /\ MayEdit
    /\ i \in 1..Len(csv)
    /\ value # csv[i][field]
    /\ csv' = [csv EXCEPT ![i][field] = value]
    /\ edits' = edits + 1
    /\ history' = Changed(i, field)
    /\ UNCHANGED <<csv_exists, configVars, workers, diskVars, now, pc, callVars, result, runs>>

DeleteRow(i) ==
    /\ MayEdit
    /\ i \in 1..Len(csv)
    /\ csv' = SubSeq(csv, 1, i - 1) \o SubSeq(csv, i + 1, Len(csv))
    /\ edits' = edits + 1
    /\ history' = Changed(i, "deleted")
    /\ UNCHANGED <<csv_exists, configVars, workers, diskVars, now, pc, callVars, result, runs>>

AppendRow(row) ==
    /\ MayEdit
    /\ Len(csv) < MaxRows
    /\ csv' = Append(csv, row)
    /\ edits' = edits + 1
    /\ history' = Changed(Len(csv) + 1, "appended")
    /\ UNCHANGED <<csv_exists, configVars, workers, diskVars, now, pc, callVars, result, runs>>

\* the source file is removed after the manager was constructed
RemoveCsv ==
    /\ MayEdit
    /\ csv_exists' = FALSE
    /\ csv' = <<>>
    /\ edits' = edits + 1
    /\ history' = Changed(0, "removed")
    /\ UNCHANGED <<configVars, workers, diskVars, now, pc, callVars, result, runs>>

DamageKinds == {"truncate", "garble", "no_blank", "no_timestamp", "cut"}

Damaged(file, kind) ==
    CASE kind = "truncate" -> [file EXCEPT !.lines = <<>>, !.mtime = now]
      [] kind = "garble" -> [file EXCEPT !.garbled = TRUE, !.mtime = now]
      [] kind = "no_blank" ->
           [file EXCEPT !.lines = SelectSeq(@, LAMBDA l : l.tag # "blank"), !.mtime = now]
      [] kind = "no_timestamp" ->
           [file EXCEPT !.lines = SelectSeq(@, LAMBDA l : l.tag # "generated_at"), !.mtime = now]
      [] kind = "cut" -> [file EXCEPT !.lines = SubSeq(@, 1, Len(@) - 1), !.mtime = now]

DamageTreeFile(f, kind) ==
    /\ MayChange
    /\ tree_files[f].exists
    /\ Damaged(tree_files[f], kind) # tree_files[f]
    /\ tree_files' = [tree_files EXCEPT ![f] = Damaged(@, kind)]
    /\ edits' = edits + 1
    /\ history' = Changed(0, "damaged")
    /\ UNCHANGED <<csv, csv_exists, configVars, workers, host_vars_dir, now, pc, callVars, result, runs>>

DamageHostVarsFile(n, kind) ==
    /\ MayChange
    /\ host_vars_dir[n].exists
    /\ Damaged(host_vars_dir[n], kind) # host_vars_dir[n]
    /\ host_vars_dir' = [host_vars_dir EXCEPT ![n] = Damaged(@, kind)]
    /\ edits' = edits + 1
    /\ history' = Changed(0, "damaged")
    /\ UNCHANGED <<csv, csv_exists, configVars, workers, tree_files, now, pc, callVars, result, runs>>

Next ==
    \/ \E environments \in EnvironmentArgs, dry \in BOOLEAN : Generate(environments, dry)
    \/ LoadHosts
    \/ CleanupOrphans
    \/ EnterEnvironment
    \/ CreateHostVars
    \/ WriteInventory
    \/ Aggregate
    \/ Tick
    \/ \E i \in 1..MaxRows, field \in DOMAIN FieldValues :
          \E value \in FieldValues[field] : EditCsv(i, field, value)
    \/ \E i \in 1..MaxRows : DeleteRow(i)
    \/ \E row \in {Web01, Db01, Alias01, Retired} : AppendRow(row)
    \/ RemoveCsv
    \/ \E f \in TreeFileNames, kind \in DamageKinds : DamageTreeFile(f, kind)
    \/ \E n \in HostVarsNames, kind \in DamageKinds : DamageHostVarsFile(n, kind)

Spec == Init /\ [][Next]_vars

\* the same calls when the production tree file cannot be opened for writing
InitWriteFailure ==
    /\ csv \in {<<Web01, Alias01>>, <<Alias01, Db01Dev>>, <<Db01>>}
    /\ csv_exists = TRUE
    /\ inventory_key = "hostname"
    /\ cleanup_enabled = TRUE
    /\ unlink_fails = {}
    /\ write_fails = {"production.yml"}
    /\ host_vars_write_fails = {}
    /\ workers = NoWorkers
    /\ tree_files = [f \in TreeFileNames |-> NoFile]
    /\ host_vars_dir = [n \in HostVarsNames |-> IF n.stem = "old01" THEN StaleFile ELSE NoFile]
    /\ now = 0
    /\ pc = "idle"
    /\ target_environments = <<>>
    /\ dry_run = FALSE
    /\ hosts = <<>>
    /\ env_index = 0
    /\ host_index = 0
    /\ inventory = NoInventory
    /\ generated_files = <<>>
    /\ orphaned_count = 0
    /\ result = NoResult
    /\ runs = 0
    /\ edits = 0
    /\ history = NoHistory

SpecWriteFailure == InitWriteFailure /\ [][Next]_vars

\* the same call when the host-variable file of web01 cannot be opened for
\* writing; the file is missing or is the one an earlier call has written
InitHostVarsFailure ==
    /\ csv \in {<<Web01, Alias01>>, <<Db01, Web01>>, <<Web01>>}
    /\ csv_exists = TRUE
    /\ inventory_key = "hostname"
    /\ cleanup_enabled = TRUE
    /\ unlink_fails = {}
    /\ write_fails = {}
    /\ host_vars_write_fails = {[stem |-> "web01", ext |-> "yml"]}
    /\ workers = NoWorkers
    /\ tree_files = [f \in TreeFileNames |-> NoFile]
    /\ \E file \in {NoFile, create_host_vars(Web01, NoFile, "hostname", 0)} :
          host_vars_dir = [n \in HostVarsNames |->
                             IF n.stem = "old01" THEN StaleFile
                             ELSE IF n = [stem |-> "web01", ext |-> "yml"] THEN file
                             ELSE NoFile]
    /\ now = 0
    /\ pc = "idle"
    /\ target_environments = <<>>
    /\ dry_run = FALSE
    /\ hosts = <<>>
    /\ env_index = 0
    /\ host_index = 0
    /\ inventory = NoInventory
    /\ generated_files = <<>>
    /\ orphaned_count = 0
    /\ result = NoResult
    /\ runs = 0
    /\ edits = 0
    /\ history = NoHistory

SpecHostVarsFailure == InitHostVarsFailure /\ [][Next]_vars

TypeOK ==
    /\ pc \in {"idle", "load", "cleanup", "environment", "host_vars"}
    /\ now \in 0..MaxTime
    /\ runs \in 0..MaxRuns
    /\ DOMAIN tree_files = TreeFileNames
    /\ DOMAIN host_vars_dir = HostVarsNames

(***************************************************************************)
(* The tree builder on its own: build_environment_inventory applied to a   *)
(* bounded sequence of records.                                            *)
(***************************************************************************)
TreeHostPool == {Web01, Db01, Alias01, Db01Dev, Retired, Plain, DbMon}

RECURSIVE SeqsUpTo(_, _)
SeqsUpTo(S, n) ==
    IF n = 0 THEN {<<>>}
    ELSE SeqsUpTo(S, n - 1) \cup {Append(q, x) : q \in {r \in SeqsUpTo(S, n - 1) : Len(r) = n - 1}, x \in S}

InitTree ==
    /\ csv = <<>>
    /\ csv_exists = TRUE
    /\ inventory_key \in VALID_INVENTORY_KEYS
    /\ cleanup_enabled = TRUE
    /\ unlink_fails = {}
    /\ write_fails = {}
    /\ host_vars_write_fails = {}
    /\ workers = NoWorkers
    /\ tree_files = [f \in TreeFileNames |-> NoFile]
    /\ host_vars_dir = [n \in HostVarsNames |-> NoFile]
    /\ now = 0
    /\ pc = "tree_input"
    /\ target_environments = <<>>
    /\ dry_run = FALSE
    /\ hosts \in SeqsUpTo(TreeHostPool, MaxTreeHosts)
    /\ env_index = 0
    /\ host_index = 0
    /\ inventory = NoInventory
    /\ generated_files = <<>>
    /\ orphaned_count = 0
    /\ result = NoResult
    /\ runs = 0
    /\ edits = 0
    /\ history = NoHistory

\* build_environment_inventory(hosts, environment)
BuildTree(environment) ==
    /\ pc = "tree_input"
    /\ pc' = "tree_built"
    /\ target_environments' = <<environment>>
    /\ inventory' = build_environment_inventory(hosts, environment, inventory_key)
    /\ UNCHANGED <<csv, csv_exists, configVars, workers, diskVars, now, dry_run, hosts, env_index, host_index,
                   generated_files, orphaned_count, result, runs, edits, history>>

NextTree == \E environment \in ENVIRONMENTS : BuildTree(environment)

SpecTree == InitTree /\ [][NextTree]_vars

(***************************************************************************)
(* Calls of generate_inventories seen at the grain of their file           *)
(* operations: each worker is one call (one InventoryManager) on the same  *)
(* source file and the same output directories.  A file is empty from      *)
(* open("w") until the buffered content is written at close.               *)
(***************************************************************************)
Workers == 1..MaxWorkers

StartWorker == [pc |-> "start", hosts |-> <<>>, total_hosts |-> 0, orphaned_files |-> {},
                removed_count |-> 0, env_index |-> 0, host_index |-> 0,
                existing |-> NoFile, generated_files |-> <<>>, result |-> NoResult,
                unlink_failed |-> FALSE, crashed_at |-> ""]

WaitingWorker == [StartWorker EXCEPT !.pc = "waiting"]

\* the variables of the sequential calls, which the workers leave alone
sequentialVars == <<csv, csv_exists, configVars, now, pc, callVars, result, runs, edits, history>>

\* the records the worker is at: environment, active hosts, host, files
WorkerEnv(wk) == ConfigEnvironments[wk.env_index]
WorkerActiveHosts(wk) == ActiveHosts(EnvHosts(wk.hosts, WorkerEnv(wk)))
WorkerHost(wk) == WorkerActiveHosts(wk)[wk.host_index]
WorkerHostVarsFile(wk) == get_host_vars_filename(WorkerHost(wk), inventory_key)
WorkerTreeFile(wk) == InventoryFilename(WorkerEnv(wk))

\* the complete files the worker is about to write
NewHostVarsFile(wk) == create_host_vars(WorkerHost(wk), NoFile, inventory_key, now)
NewTreeFile(wk) ==
    write_inventory_file(
        build_environment_inventory(WorkerActiveHosts(wk), EnvName(WorkerEnv(wk)), inventory_key),
        wk.existing, EnvName(WorkerEnv(wk)), now)

\* stats.total_hosts after load_hosts: add_host counts every loaded record
total_hosts(loaded) == Len(loaded)

\* hosts = self.load_hosts()
WLoad(w) ==
    /\ workers[w].pc = "start"
    /\ LET loaded == IF csv_exists THEN load_hosts(csv, inventory_key) ELSE <<>>
       IN  workers' = [workers EXCEPT ![w] =
              IF loaded = <<>>
              THEN [@ EXCEPT !.pc = "done",
                             !.result = ErrorResult(IF csv_exists THEN NoValidHosts
                                                    ELSE SourceNotFound, FALSE)]
              ELSE [@ EXCEPT !.pc = "cleanup", !.hosts = loaded,
                             !.total_hosts = total_hosts(loaded)]]
    /\ UNCHANGED <<sequentialVars, diskVars>>

\* cleanup_orphaned_host_vars: the glob of the host_vars directory
WGlob(w) ==
    /\ workers[w].pc = "cleanup"
    /\ LET found == IF cleanup_enabled THEN orphaned_files(host_vars_dir, workers[w].hosts)
                    ELSE {}
       IN  workers' = [workers EXCEPT ![w] =
              [@ EXCEPT !.orphaned_files = found, !.env_index = 1,
                        !.pc = IF found = {} THEN "environment" ELSE "unlink"]]
    /\ UNCHANGED <<sequentialVars, diskVars>>

UnlinkedNever(found, n) == found

\* the files the unlink loop still has to go through after file n
Unlinked(found, n) == found \ {n}

\* cleanup_orphaned_host_vars: file_path.unlink() in try/except; the unlink
\* of a file that is gone, or that cannot be deleted, raises and is skipped
WUnlink(w, n) ==
    /\ workers[w].pc = "unlink"
    /\ n \in workers[w].orphaned_files
    /\ LET raises == ~host_vars_dir[n].exists \/ n \in unlink_fails
           rest == Unlinked(workers[w].orphaned_files, n)
       IN  /\ host_vars_dir' = IF raises THEN host_vars_dir
                               ELSE [host_vars_dir EXCEPT ![n] = NoFile]
           /\ workers' = [workers EXCEPT ![w] =
                 [@ EXCEPT !.orphaned_files = rest,
                           !.removed_count = IF raises THEN @ ELSE @ + 1,
                           !.unlink_failed = @ \/ raises,
                           !.pc = IF rest = {} THEN "environment" ELSE "unlink"]]
    /\ UNCHANGED <<sequentialVars, tree_files>>

\* head of `for env in target_environments`
WEnterEnvironment(w) ==
    /\ workers[w].pc = "environment"
    /\ workers[w].env_index <= Len(ConfigEnvironments)
    /\ workers' = [workers EXCEPT ![w] =
          IF EnvHosts(@.hosts, WorkerEnv(@)) = <<>>
          THEN [@ EXCEPT !.env_index = @ + 1]
          ELSE [@ EXCEPT !.pc = "host_vars", !.host_index = 1]]
    /\ UNCHANGED <<sequentialVars, diskVars>>

\* create_host_vars: the existing file is read and compared
WReadHostVars(w) ==
    /\ workers[w].pc = "host_vars"
    /\ workers[w].host_index <= Len(WorkerActiveHosts(workers[w]))
    /\ LET wk == workers[w]
           file == host_vars_dir[WorkerHostVarsFile(wk)]
       IN  workers' = [workers EXCEPT ![w] =
              IF should_write(file, DumpHostVars(WorkerHost(wk)))
              THEN [@ EXCEPT !.pc = "host_vars_open"]
              ELSE [@ EXCEPT !.host_index = @ + 1]]
    /\ UNCHANGED <<sequentialVars, diskVars>>

\* create_host_vars: host_vars_file.open("w") truncates the file
WOpenHostVars(w) ==
    /\ workers[w].pc = "host_vars_open"
    /\ host_vars_dir' = [host_vars_dir EXCEPT ![WorkerHostVarsFile(workers[w])] = FileOf(<<>>, now)]
    /\ workers' = [workers EXCEPT ![w].pc = "host_vars_write"]
    /\ UNCHANGED <<sequentialVars, tree_files>>

\* create_host_vars: the header and the body are written and the file closed
WWriteHostVars(w) ==
    /\ workers[w].pc = "host_vars_write"
    /\ host_vars_dir' = [host_vars_dir EXCEPT
                            ![WorkerHostVarsFile(workers[w])] = NewHostVarsFile(workers[w])]
    /\ workers' = [workers EXCEPT ![w] = [@ EXCEPT !.pc = "host_vars", !.host_index = @ + 1]]
    /\ UNCHANGED <<sequentialVars, tree_files>>

\* write_inventory_file: the existing tree file is read
WReadTree(w) ==
    /\ workers[w].pc = "host_vars"
    /\ workers[w].host_index > Len(WorkerActiveHosts(workers[w]))
    /\ workers' = [workers EXCEPT ![w] =
          [@ EXCEPT !.pc = "tree_open", !.existing = tree_files[WorkerTreeFile(workers[w])]]]
    /\ UNCHANGED <<sequentialVars, diskVars>>

\* write_inventory_file: output_file.open("w") truncates the file
WOpenTree(w) ==
    /\ workers[w].pc = "tree_open"
    /\ tree_files' = [tree_files EXCEPT ![WorkerTreeFile(workers[w])] = FileOf(<<>>, now)]
    /\ workers' = [workers EXCEPT ![w].pc = "tree_write"]
    /\ UNCHANGED <<sequentialVars, host_vars_dir>>

\* write_inventory_file: the header and the body are written and the file
\* closed; generated_files.append
WWriteTree(w) ==
    /\ workers[w].pc = "tree_write"
    /\ tree_files' = [tree_files EXCEPT ![WorkerTreeFile(workers[w])] = NewTreeFile(workers[w])]
    /\ workers' = [workers EXCEPT ![w] =
          [@ EXCEPT !.pc = "environment",
                    !.existing = NoFile,
                    !.generated_files = Append(@, WorkerTreeFile(workers[w])),
                    !.env_index = NextEnvironment(@, ConfigEnvironments, FALSE)]]
    /\ UNCHANGED <<sequentialVars, host_vars_dir>>

\* the return of generate_inventories after the last environment
WReturn(w) ==
    /\ workers[w].pc = "environment"
    /\ workers[w].env_index > Len(ConfigEnvironments)
    /\ workers' = [workers EXCEPT ![w] =
          [@ EXCEPT !.pc = "done",
                    !.result = [status |-> "success", error |-> "",
                                generated_files |-> workers[w].generated_files,
                                orphaned_files_removed |-> workers[w].removed_count,
                                dry_run |-> FALSE]]]
    /\ UNCHANGED <<sequentialVars, diskVars>>

WorkerStep(w) ==
    \/ WLoad(w)
    \/ WGlob(w)
    \/ \E n \in HostVarsNames : WUnlink(w, n)
    \/ WEnterEnvironment(w)
    \/ WReadHostVars(w)
    \/ WOpenHostVars(w)
    \/ WWriteHostVars(w)
    \/ WReadTree(w)
    \/ WOpenTree(w)
    \/ WWriteTree(w)
    \/ WReturn(w)

\* a host-variable file of a valid record with an outdated body
OutdatedFile == FileOf(HostVarsHeader("db01") \o <<Line("field", "hostname", "old01", 0)>>, 0)

InitWorkers ==
    /\ \E seed \in {[csv |-> <<Web01, Db01>>, inventory_key |-> "hostname"],
                     [csv |-> <<Unsupported>>, inventory_key |-> "hostname"]} :
          csv = seed.csv /\ inventory_key = seed.inventory_key
    /\ csv_exists = TRUE
    /\ cleanup_enabled = TRUE
    /\ unlink_fails = {}
    /\ write_fails = {}
    /\ host_vars_write_fails = {}
    /\ tree_files = [f \in TreeFileNames |-> NoFile]
    /\ host_vars_dir = [n \in HostVarsNames |->
                            IF n.stem = "old01" THEN StaleFile
                            ELSE IF n.stem = "db01" THEN OutdatedFile ELSE NoFile]
    /\ now = 0
    /\ pc = "workers"
    /\ target_environments = ConfigEnvironments
    /\ dry_run = FALSE
    /\ hosts = <<>>
    /\ env_index = 0
    /\ host_index = 0
    /\ inventory = NoInventory
    /\ generated_files = <<>>
    /\ orphaned_count = 0
    /\ result = NoResult
    /\ runs = 0
    /\ edits = 0
    /\ history = [NoHistory EXCEPT !.snapshot = DiskBytes]

\* several calls at the same time
InitConcurrent ==
    /\ InitWorkers
    /\ workers = [w \in Workers |-> StartWorker]

NextConcurrent == \E w \in Workers : WorkerStep(w)

SpecConcurrent == InitConcurrent /\ [][NextConcurrent]_vars

\* the call of the worker has started and has not returned
Running(w) == workers[w].pc \notin {"done", "terminated", "waiting"}

\* a call that has not returned is never blocked: it takes no lock and waits
\* for nothing, so one of its steps is enabled (the two write steps have no
\* guard but the position of the call)
WorkersNeverBlock ==
    \A w \in Workers :
       Running(w) =>
          \/ workers[w].pc \in {"host_vars_write", "tree_write"}
          \/ ENABLED (\/ WLoad(w) \/ WGlob(w) \/ (\E n \in HostVarsNames : WUnlink(w, n))
                      \/ WEnterEnvironment(w) \/ WReadHostVars(w) \/ WOpenHostVars(w)
                      \/ WReadTree(w) \/ WOpenTree(w) \/ WReturn(w))

\* every thread is scheduled again and again until its call returns: weak
\* fairness WF_vars(WorkerStep(w)) of the steps of each worker, with
\* ENABLED <<WorkerStep(w)>>_vars written as Running(w), to which it is
\* equivalent by WorkersNeverBlock
FairSpecConcurrent ==
    SpecConcurrent /\ \A w \in Workers : ([]<>(~Running(w)) \/ []<><<WorkerStep(w)>>_vars)

\* what is left of a file whose writer was terminated between open("w") and
\* close: leading lines of the content, possibly followed by a torn line
CutFile(file, k, torn) ==
    FileOf(SubSeq(file.lines, 1, k) \o (IF torn THEN <<Line("torn", "", "", 0)>> ELSE <<>>),
           file.mtime)

\* the process of a call is terminated; a file it has open for writing is
\* left with any part of the content
Crash(w) ==
    /\ workers[w].pc \notin {"waiting", "done", "terminated"}
    /\ LET wk == workers[w]
       IN  CASE wk.pc = "host_vars_write" ->
                  /\ \E k \in 0..(Len(NewHostVarsFile(wk).lines) - 1), torn \in BOOLEAN :
                        host_vars_dir' = [host_vars_dir EXCEPT ![WorkerHostVarsFile(wk)] =
                                            CutFile(NewHostVarsFile(wk), k, torn)]
                  /\ UNCHANGED tree_files
             [] wk.pc = "tree_write" ->
                  /\ \E k \in 0..(Len(NewTreeFile(wk).lines) - 1), torn \in BOOLEAN :
                        tree_files' = [tree_files EXCEPT ![WorkerTreeFile(wk)] =
                                         CutFile(NewTreeFile(wk), k, torn)]
                  /\ UNCHANGED host_vars_dir
             [] OTHER -> UNCHANGED diskVars
    /\ workers' = [workers EXCEPT ![w] = [@ EXCEPT !.pc = "terminated", !.crashed_at = workers[w].pc]]
    /\ UNCHANGED sequentialVars

\* the next call is started when the previous one has returned or was terminated
StartNext(w) ==
    /\ w > 1
    /\ workers[w].pc = "waiting"
    /\ workers[w - 1].pc \in {"done", "terminated"}
    /\ workers' = [workers EXCEPT ![w].pc = "start"]
    /\ UNCHANGED <<sequentialVars, diskVars>>

\* one call after the other, the first of which may be terminated
InitRecovery ==
    /\ InitWorkers
    /\ workers = [w \in Workers |-> IF w = 1 THEN StartWorker ELSE WaitingWorker]

NextRecovery ==
    \/ \E w \in Workers : WorkerStep(w)
    \/ Crash(1)
    \/ \E w \in Workers : StartNext(w)

SpecRecovery == InitRecovery /\ [][NextRecovery]_vars

(***************************************************************************)
(* Properties of the tree builder.                                         *)
(***************************************************************************)
Permuted(seq, p) == [i \in 1..Len(seq) |-> seq[p[i]]]

BuiltFrom(hs) == build_environment_inventory(hs, target_environments[1], inventory_key)

\* C6: set-union independence.  Every permutation of the records given to
\* build_environment_inventory builds the same tree and the same serialized
\* body, and giving a record once more adds no membership.
SetUnionIndependence ==
    pc = "tree_built" =>
       /\ \A p \in Permutations(1..Len(hosts)) :
             /\ BuiltFrom(Permuted(hosts, p)) = inventory
             /\ DumpInventory(FilterInventory(BuiltFrom(Permuted(hosts, p))))
                  = DumpInventory(FilterInventory(inventory))
       /\ \A i \in 1..Len(hosts) : BuiltFrom(Append(hosts, hosts[i])) = inventory

\* three records of the environment, two of them the same row, in two groups
SetUnionIndependenceWitness ==
    /\ pc = "tree_built"
    /\ Len(hosts) = 3
    /\ hosts[1] = hosts[3]
    /\ hosts[1] # hosts[2]
    /\ \A i \in 1..3 : hosts[i].environment = target_environments[1]
    /\ \E g \in DOMAIN inventory : g.kind = "site" /\ Cardinality(inventory[g].hosts) = 2
    /\ \E g \in DOMAIN inventory : g.kind = "app" /\ inventory[g].children # {}

RecordsOf(hs, environment) == {h \in SeqRange(hs) : h.environment = environment}

EnvChildrenOf(r) ==
    (IF r.application_service # "" THEN {Group("app", Normalized(r.application_service))} ELSE {})
    \cup (IF r.site_code # "" THEN {Group("site", Normalized(r.site_code))} ELSE {})
    \cup (IF r.batch_number # "" THEN {Group("batch", Normalized(r.batch_number))} ELSE {})

ProductGroupsOf(r) ==
    IF r.application_service # ""
    THEN {Group("product", Normalized(r.products[i])) :
             i \in {k \in 1..Len(r.products) : r.products[k] # ""}}
    ELSE {}

MembershipOf(r) == {Group("env", r.environment)} \cup EnvChildrenOf(r) \cup ProductGroupsOf(r)

CanonicalKey(r) ==
    IF inventory_key = "hostname"
    THEN (IF r.hostname = "" THEN r.cname ELSE r.hostname)
    ELSE (IF r.cname = "" THEN r.hostname ELSE r.cname)

\* the tree the records of one environment stand for
ExpectedTree(hs, environment) ==
    LET records == RecordsOf(hs, environment)
        groups == UNION {MembershipOf(r) : r \in records}
    IN  [g \in groups \cup {AllGroup} |->
           [hosts |-> {CanonicalKey(r) : r \in {x \in records : g \in MembershipOf(x)}},
            children |->
               IF g = AllGroup THEN {Group("env", r.environment) : r \in records}
               ELSE IF g.kind = "env" THEN UNION {EnvChildrenOf(r) : r \in records}
               ELSE IF g.kind = "app"
                    THEN UNION {ProductGroupsOf(r) :
                                  r \in {x \in records : g \in EnvChildrenOf(x)}}
               ELSE {}]]

\* C10: tree shape.  The canonical key of every record of the environment is
\* a host of the environment group; its application, site and batch groups
\* are children of the environment group and hold the host; the product
\* groups of a record with an application group are children of that
\* application group and hold the host; nothing else is in the tree.
TreeShape ==
    pc = "tree_built" => inventory = ExpectedTree(hosts, target_environments[1])

\* a tree with an application group that has product children, a site and a
\* batch group, and a record that is in the environment group only
TreeShapeWitness ==
    /\ pc = "tree_built"
    /\ target_environments = <<"production">>
    /\ Plain \in SeqRange(hosts)
    /\ Web01 \in SeqRange(hosts)
    /\ Db01 \in SeqRange(hosts)
    /\ inventory[Group("app", "web")].children = {Group("product", "web"), Group("product", "mon")}
    /\ inventory[Group("env", "production")].children
         = {Group("app", "web"), Group("app", "db"), Group("site", "dc_1"), Group("batch", "1")}
    /\ Group("product", "web") \notin inventory[Group("env", "production")].children
    /\ inventory[Group("app", "db")].children = {}

(***************************************************************************)
(* Reading the generated files back.                                       *)
(***************************************************************************)
YamlTags == {"group", "children", "children_empty", "child", "hosts", "hosts_empty", "host",
             "empty_map", "field"}

\* the lines a YAML reader sees: no comment lines, no blank lines
YamlLines(file) == SelectSeq(file.lines, LAMBDA l : l.tag \in YamlTags)

\* yaml.safe_load of a tree file: group -> its hosts and children
safe_load(file) ==
    LET body == YamlLines(file)
        starts == {i \in 1..Len(body) : body[i].tag = "group"}
        block(i) == {j \in (i + 1)..Len(body) : \A k \in (i + 1)..j : body[k].tag # "group"}
    IN  [g \in {Group(body[i].kind, body[i].val) : i \in starts} |->
           LET i == CHOOSE x \in starts : Group(body[x].kind, body[x].val) = g
           IN  [hosts |-> {body[j].val : j \in {x \in block(i) : body[x].tag = "host"}},
                children |-> {Group(body[j].kind, body[j].val) :
                                 j \in {x \in block(i) : body[x].tag = "child"}}]]

\* what yaml.safe_load gives for data[parent]["children"][child]: the entry
\* is dumped as `child: {}`, a mapping without "hosts" and "children"
child_entry(file, parent, child) ==
    LET entries == {l \in SeqRange(YamlLines(file)) :
                       l.tag = "child" /\ Group(l.kind, l.val) = child}
    IN  [hosts |-> {l.val : l \in {x \in entries : x.tag = "host"}},
         children |-> {Group(l.kind, l.val) : l \in {x \in entries : x.tag = "group"}}]

HostsInGroup(file, g) ==
    IF g \in DOMAIN safe_load(file) THEN safe_load(file)[g].hosts ELSE {}

\* the files the call in progress, or the call that just returned, has written
JustGenerated ==
    IF pc # "idle" \/ history.changes = 0 THEN SeqRange(generated_files) ELSE {}

\* a call that is a repetition of the previous one has just returned
RepeatedRunDone ==
    /\ pc = "idle"
    /\ result.status = "success"
    /\ history.repeat
    /\ history.changes = 0

IsCreateHostVarsStep == pc = "host_vars" /\ host_index' = host_index + 1
IsWriteInventoryStep == pc = "host_vars" /\ pc' = "environment"

(***************************************************************************)
(* Properties of the content-diff writers.                                 *)
(***************************************************************************)
\* C1: idempotence.  When generate_inventories (not dry-run) is run twice in
\* succession on the same environments, with unchanged source records and no
\* other change to the files, every tree file and every host-variable file
\* has after the second run the bytes it had after the first, the
\* "# Generated at:" line included.
Idempotence == RepeatedRunDone => DiskBytes = history.snapshot

\* the second run is over, the clock has advanced since the tree file was
\* stamped, and host-variable files of the records are there
IdempotenceWitness ==
    /\ RepeatedRunDone
    /\ generated_files # <<>>
    /\ \A f \in SeqRange(generated_files) :
          /\ ReadTree(tree_files[f]).has_timestamp
          /\ ReadTree(tree_files[f]).existing_timestamp.t < history.start_time
    /\ \E n \in HostVarsNames : n.stem # "old01" /\ host_vars_dir[n].exists

\* C2: a tree file whose serialized body equals the body on disk is not
\* written: write_inventory_file leaves the file as it is, modification
\* time included.
UnchangedTreeNotWritten ==
    [][ IsWriteInventoryStep =>
          LET f == InventoryFilename(target_environments[env_index])
              old == ReadTree(tree_files[f])
          IN  (old.has_content
                 /\ old.existing_yaml_content = DumpInventory(FilterInventory(inventory')))
              => tree_files'[f] = tree_files[f] ]_vars

\* the header block of a host-variable file ends at its first blank line
\* that is not the first line of the file
HasHeaderBlock(file) ==
    file.exists /\ ~file.garbled /\ \E k \in 2..Len(file.lines) : file.lines[k].tag = "blank"

BodyAfterHeader(file) ==
    LET k == CHOOSE x \in 2..Len(file.lines) :
                /\ file.lines[x].tag = "blank"
                /\ \A y \in 2..(x - 1) : file.lines[y].tag # "blank"
    IN  [i \in 1..(Len(file.lines) - k) |-> file.lines[k + i]]

\* C3: create_host_vars leaves an existing host-variable file alone, its
\* modification time included, when the serialized mapping equals the body
\* after the header block; when the file is missing, unreadable, without
\* header block or different in body it writes the full file.  No other
\* file is touched.
HostVarsWriteSkipped ==
    [][ IsCreateHostVarsStep =>
          LET host == ActiveHosts(EnvHosts(hosts, target_environments[env_index]))[host_index]
              name == [stem |-> CanonicalKey(host), ext |-> "yml"]
              old == host_vars_dir[name]
              body == DumpHostVars(host)
          IN  /\ \A n \in HostVarsNames \ {name} : host_vars_dir'[n] = host_vars_dir[n]
              /\ IF HasHeaderBlock(old) /\ BodyAfterHeader(old) = body
                 THEN host_vars_dir'[name] = old
                 ELSE host_vars_dir'[name]
                        = FileOf(HostVarsHeader(CanonicalKey(host)) \o body, now) ]_vars

\* create_host_vars has been called for a record whose file, unchanged in
\* body, still has a modification time from before the call
HostVarsWriteSkippedWitness ==
    /\ pc = "host_vars"
    /\ host_index > 1
    /\ LET host == ActiveHosts(EnvHosts(hosts, target_environments[env_index]))[host_index - 1]
           file == host_vars_dir[[stem |-> CanonicalKey(host), ext |-> "yml"]]
       IN  /\ file.exists
           /\ file.mtime < history.start_time
           /\ BodyAfterHeader(file) = DumpHostVars(host)

\* the record changed by the one edit made since the previous call, as loaded
EditedRecord == MapEnvironmentCode(csv[history.one_edit.row])

Requested(environment) ==
    \E i \in 1..Len(target_environments) : EnvName(target_environments[i]) = environment

\* a call has just returned that repeats the previous one after exactly one
\* change, to a grouping attribute of an active valid record of a requested
\* environment
GroupingEditRunDone ==
    /\ pc = "idle"
    /\ result.status = "success"
    /\ history.changes = 0
    /\ history.one_edit.field \in GroupingFields
    /\ EditedRecord \in SeqRange(hosts)
    /\ EditedRecord.status = "active"
    /\ Requested(EditedRecord.environment)

\* the body the active records of an environment serialize to
ExpectedBody(environment) ==
    DumpInventory(FilterInventory(
        ExpectedTree(SelectSeq(hosts, LAMBDA h : h.status = "active"), environment)))

\* the timestamp line of a tree file was generated by the call
FreshTimestamp(file) ==
    /\ ReadTree(file).has_timestamp
    /\ ReadTree(file).existing_timestamp.t >= history.start_time

\* C4 as stated: after one record's grouping attribute is modified and
\* generation is re-run, the tree file of the record's environment holds the
\* new body with a freshly generated timestamp line.
EditedTreeFreshTimestamp ==
    GroupingEditRunDone =>
       LET f == YmlName(EditedRecord.environment)
       IN  /\ ReadTree(tree_files[f]).existing_yaml_content
                = ExpectedBody(EditedRecord.environment)
           /\ FreshTimestamp(tree_files[f])

\* every write of a tree file: the file holds the new body; its timestamp
\* line is the one on disk when a timestamp and a body can be read from the
\* file and the body equals the new one, and the current time otherwise
TimestampRule ==
    IsWriteInventoryStep =>
       LET f == InventoryFilename(target_environments[env_index])
           old == ReadTree(tree_files[f])
           new == ReadTree(tree_files'[f])
       IN  /\ new.has_content /\ new.has_timestamp
           /\ new.existing_yaml_content = DumpInventory(FilterInventory(inventory'))
           /\ new.existing_timestamp =
                IF old.has_timestamp /\ old.has_content
                   /\ old.existing_yaml_content = new.existing_yaml_content
                THEN old.existing_timestamp
                ELSE Line("generated_at", "", "", now)

\* after the edit of a grouping attribute the tree file holds the new body,
\* with a fresh timestamp line when the body differs from the one of the
\* previous run and with the previous line when it does not
EditedTreeRule ==
    GroupingEditRunDone =>
       LET f == YmlName(EditedRecord.environment)
           new == ReadTree(tree_files[f])
           old == ReadTree(history.snapshot.tree[f])
       IN  /\ new.existing_yaml_content = ExpectedBody(EditedRecord.environment)
           /\ IF old.existing_yaml_content # new.existing_yaml_content
              THEN FreshTimestamp(tree_files[f])
              ELSE new.existing_timestamp = old.existing_timestamp

\* C4, amended: change detection.  After one record's grouping attribute is
\* modified and generation is re-run, the tree file of the record's
\* environment holds the new body, with a freshly generated timestamp line
\* when the modification changed the serialized body; a tree file's
\* timestamp line is regenerated if and only if the serialized body differs
\* from the body on disk or no previous timestamp or body can be read, and is
\* otherwise preserved verbatim.
ChangeDetection == [][TimestampRule]_vars /\ []EditedTreeRule

\* the edit changed the body and the file carries a timestamp later than the
\* one of the previous run
ChangeDetectionWitness ==
    /\ GroupingEditRunDone
    /\ LET f == YmlName(EditedRecord.environment)
           old == ReadTree(history.snapshot.tree[f])
       IN  /\ old.has_timestamp /\ old.has_content
           /\ old.existing_yaml_content # ReadTree(tree_files[f]).existing_yaml_content
           /\ old.existing_timestamp.t < ReadTree(tree_files[f]).existing_timestamp.t

\* C5: pruning.  Every group at the top level of a tree file written by
\* write_inventory_file has at least one host; the root "all" is not in it.
Pruning ==
    \A f \in JustGenerated :
       \A g \in DOMAIN safe_load(tree_files[f]) :
          /\ safe_load(tree_files[f])[g].hosts # {}
          /\ g # AllGroup
          /\ \A i \in 1..Len(tree_files[f].lines) : tree_files[f].lines[i].tag # "hosts_empty"

\* a tree was built with the root "all" in it and written with several groups
PruningWitness ==
    /\ generated_files # <<>>
    /\ JustGenerated # {}
    /\ AllGroup \in DOMAIN inventory
    /\ inventory[AllGroup].hosts = {}
    /\ Cardinality(DOMAIN safe_load(tree_files[generated_files[Len(generated_files)]])) >= 3

(***************************************************************************)
(* Properties of the reconciler.                                           *)
(***************************************************************************)
AfterCleanup == pc = "environment" /\ env_index = 1

\* the *.yml files of the directory as it was when the call started whose
\* stem names no loaded record
OrphansBefore ==
    {n \in HostVarsNames :
        /\ history.snapshot.host_vars[n].exists
        /\ n.ext = "yml"
        /\ \A h \in SeqRange(hosts) : n.stem # h.hostname /\ n.stem # h.cname}

StatusFiltering ==
    /\ \A h \in history.host_vars_calls : h.status # "decommissioned"
    /\ \A f \in JustGenerated :
          \A g \in DOMAIN safe_load(tree_files[f]) :
             \A k \in safe_load(tree_files[f])[g].hosts :
                \E h \in SeqRange(hosts) :
                   /\ h.status = "active"
                   /\ CanonicalKey(h) = k
                   /\ YmlName(h.environment) = f
                   /\ g \in MembershipOf(h)

\* a decommissioned record with grouping attributes was loaded, the tree of
\* its environment was generated without its key and it has no file
StatusFilteringWitness ==
    /\ pc = "idle" /\ result.status = "success" /\ history.changes = 0
    /\ \E h \in SeqRange(hosts) :
          /\ h.status = "decommissioned"
          /\ h.application_service # ""
          /\ YmlName(h.environment) \in SeqRange(generated_files)
          /\ \A g \in DOMAIN safe_load(tree_files[YmlName(h.environment)]) :
                CanonicalKey(h) \notin safe_load(tree_files[YmlName(h.environment)])[g].hosts
          /\ DOMAIN safe_load(tree_files[YmlName(h.environment)]) # {}
          /\ ~host_vars_dir[[stem |-> CanonicalKey(h), ext |-> "yml"]].exists

RunDone == pc = "idle" /\ result.status = "success" /\ ~result.dry_run /\ history.changes = 0

PrimaryName(row) == IF inventory_key = "hostname" THEN row.hostname ELSE row.cname
AlternateName(row) == IF inventory_key = "hostname" THEN row.cname ELSE row.hostname

\* C9: inventory-key fallback.  A row whose configured key name is empty and
\* whose other name is not is loaded, and (when active, in a requested
\* environment) is a host of its environment group and has its
\* host-variable file under the other name; a row whose both names are
\* empty is not loaded.
InventoryKeyFallback ==
    RunDone =>
       /\ \A i \in 1..Len(csv) :
             LET row == MapEnvironmentCode(csv[i])
                 name == AlternateName(row)
             IN  (PrimaryName(row) = "" /\ name # "" /\ ~StartsWithHash(name) /\ RowIsValid(row))
                 => /\ row \in SeqRange(hosts)
                    /\ (row.status = "active" /\ Requested(row.environment))
                       => /\ name \in HostsInGroup(tree_files[YmlName(row.environment)],
                                                      Group("env", row.environment))
                          /\ host_vars_dir[[stem |-> name, ext |-> "yml"]].exists
       /\ \A h \in SeqRange(hosts) : h.hostname # "" \/ h.cname # ""

\* hostname is the key, a row without hostname is in the tree under its
\* cname, and a row without any name is in the source
InventoryKeyFallbackWitness ==
    /\ RunDone
    /\ inventory_key = "hostname"
    /\ \E i \in 1..Len(csv) :
          /\ csv[i].hostname = "" /\ csv[i].cname = "alias01" /\ csv[i].status = "active"
          /\ csv[i].environment = "development"
          /\ "alias01" \in HostsInGroup(tree_files["development.yml"],
                                           Group("env", "development"))
          /\ host_vars_dir[[stem |-> "alias01", ext |-> "yml"]].exists
    /\ \E i \in 1..Len(csv) : csv[i].hostname = "" /\ csv[i].cname = ""

(***************************************************************************)
(* Properties of the error handling.                                       *)
(***************************************************************************)
\* the source is missing, or none of its rows is a valid record
FatalLoad ==
    \/ ~csv_exists
    \/ \A i \in 1..Len(csv) :
          \/ PrimaryId(csv[i], inventory_key) = ""
          \/ StartsWithHash(PrimaryId(csv[i], inventory_key))
          \/ ~RowIsValid(MapEnvironmentCode(csv[i]))

\* C11: fatal load failure.  When the source is missing or yields no valid
\* record, generate_inventories returns at once with status "error", a
\* non-empty error string and an empty generated-file list, and neither the
\* call nor its start has deleted or written any file: tree files and
\* host-variable files are as they were, modification times included.
FatalLoadFailure ==
    [][ (FatalLoad /\ (pc # "idle" \/ pc' # "idle")) =>
          /\ pc = "idle" \/ pc = "load"
          /\ tree_files' = tree_files
          /\ host_vars_dir' = host_vars_dir
          /\ pc = "load" =>
                /\ pc' = "idle"
                /\ result'.status = "error"
                /\ result'.error # ""
                /\ result'.generated_files = <<>>
                /\ result'.orphaned_files_removed = 0 ]_vars

\* a call has returned the error for a source whose rows are all invalid,
\* with cleanup enabled and an orphan and a tree file of an earlier call
\* still in place
FatalLoadFailureWitness ==
    /\ pc = "idle" /\ runs = 2 /\ history.changes = 0
    /\ result.status = "error" /\ result.error = NoValidHosts
    /\ csv_exists /\ csv # <<>>
    /\ cleanup_enabled /\ unlink_fails = {}
    /\ \E n \in orphaned_files(host_vars_dir, <<>>) : n.stem # "old01"
    /\ \E f \in TreeFileNames : tree_files[f].exists

\* a call has returned the error for a source that was removed
SourceMissingReached ==
    /\ pc = "idle" /\ runs = 2 /\ history.changes = 0
    /\ result.status = "error" /\ result.error = SourceNotFound
    /\ ~csv_exists
    /\ \E f \in TreeFileNames : tree_files[f].exists

\* a call that loaded records has returned
LoadedRunDone == pc = "idle" /\ runs >= 1 /\ hosts # <<>>

\* the requested environments that have records, in the order of the loop
ProcessedFiles ==
    {InventoryFilename(target_environments[i]) :
        i \in {j \in 1..Len(target_environments) :
                  EnvHosts(hosts, target_environments[j]) # <<>>}}

\* C12: per-environment recovery.  When the write of one requested
\* environment raises, generate_inventories goes on with the remaining
\* environments: the file of the failed environment is not in
\* generated_files and is left as it was, the file of every other
\* environment that has records is in generated_files and holds its tree,
\* and the status is "success".
PerEnvironmentRecovery ==
    LoadedRunDone =>
       /\ result.status = "success"
       /\ ~result.dry_run =>
             \A f \in ProcessedFiles :
                IF f \in write_fails
                THEN /\ f \notin SeqRange(result.generated_files)
                     /\ Bytes(tree_files[f]) = history.snapshot.tree[f]
                ELSE /\ f \in SeqRange(result.generated_files)
                     /\ history.changes = 0 => ReadTree(tree_files[f]).has_content

\* the write of production.yml raised, the first of two environments with
\* records; development.yml was generated after it
PerEnvironmentRecoveryWitness ==
    /\ LoadedRunDone /\ ~result.dry_run
    /\ target_environments = <<"production", "development">>
    /\ ProcessedFiles = {"production.yml", "development.yml"}
    /\ "production.yml" \in write_fails
    /\ result.generated_files = <<"development.yml">>
    /\ ~tree_files["production.yml"].exists
    /\ tree_files["development.yml"].exists
    /\ host_vars_dir[[stem |-> "web01", ext |-> "yml"]].exists

(***************************************************************************)
(* Properties of the dry run.                                              *)
(***************************************************************************)
\* a step of a call with dry_run=True, its start included
IsDryRunStep ==
    \/ pc # "idle" /\ dry_run
    \/ pc = "idle" /\ pc' = "load" /\ dry_run'

\* a dry run has returned "success"
DryRunDone ==
    /\ pc = "idle" /\ result.status = "success" /\ result.dry_run /\ history.changes = 0

\* the *.yml files in the host-vars directory whose stem names no loaded record
OrphansOnDisk ==
    {n \in HostVarsNames :
        /\ host_vars_dir[n].exists
        /\ n.ext = "yml"
        /\ \A h \in SeqRange(hosts) : n.stem # h.hostname /\ n.stem # h.cname}

DryRunResult ==
    DryRunDone =>
       /\ result.generated_files = <<>>
       /\ result.orphaned_files_removed
            = IF cleanup_enabled THEN Cardinality(OrphansOnDisk) ELSE 0
       /\ DiskBytes = history.snapshot

\* C13: dry run.  No step of a call with dry_run=True creates, modifies or
\* deletes a tree file or a host-variable file (modification times
\* included); the call loads the records and counts the orphans as a real
\* call does, and returns the number of orphaned files found (0 when the
\* cleanup is disabled) with an empty generated-file list.
DryRun ==
    /\ [][IsDryRunStep => (tree_files' = tree_files /\ host_vars_dir' = host_vars_dir)]_vars
    /\ []DryRunResult

\* a dry run over environments with active records has returned a count of
\* two orphans, which are still on disk
DryRunWitness ==
    /\ DryRunDone
    /\ cleanup_enabled
    /\ result.orphaned_files_removed = 2
    /\ Cardinality(OrphansOnDisk) = 2
    /\ \E i \in 1..Len(target_environments) :
          ActiveHosts(EnvHosts(hosts, target_environments[i])) # <<>>

(***************************************************************************)
(* Properties of the command.                                              *)
(***************************************************************************)
\* C14: the result of GenerateCommand.execute has success=false and a
\* non-empty error string whenever the generation failed (source missing,
\* or status "error" of generate_inventories), and success=true only when
\* the run completed.
CommandReportsFailure ==
    (pc = "idle" /\ result.status # "none" /\ history.changes = 0) =>
       LET command == execute(csv_exists, result)
       IN  /\ result.status = "error" => (~command.success /\ command.error # "")
           /\ command.success => result.status = "success"

\* C15: nested hierarchy.  In a generated tree file the entry of an
\* application group inside the children map of its environment group
\* carries the hosts of the application group and its product groups as
\* children.
NestedHierarchy ==
    \A f \in JustGenerated :
       \A g \in DOMAIN safe_load(tree_files[f]) :
          \A c \in safe_load(tree_files[f])[g].children :
             (g.kind = "env" /\ c.kind = "app" /\ c \in DOMAIN safe_load(tree_files[f])) =>
                /\ child_entry(tree_files[f], g, c).hosts = safe_load(tree_files[f])[c].hosts
                /\ child_entry(tree_files[f], g, c).children
                     = safe_load(tree_files[f])[c].children

(***************************************************************************)
(* Properties of a call for some of the environments.                      *)
(***************************************************************************)
RequestedFiles ==
    {InventoryFilename(target_environments[i]) : i \in 1..Len(target_environments)}

\* the name names a loaded record of any environment, by hostname or cname
NamesRecord(stem) == \E h \in SeqRange(hosts) : stem = h.hostname \/ stem = h.cname

\* a step of a call writes tree files of requested environments only, writes
\* host-variable files of active records of requested environments only, and
\* deletes only *.yml files that name no loaded record
SubsetStep ==
    pc # "idle" =>
       /\ \A f \in TreeFileNames :
             tree_files'[f] # tree_files[f] => f \in RequestedFiles
       /\ \A n \in HostVarsNames :
             host_vars_dir'[n] # host_vars_dir[n] =>
                IF host_vars_dir'[n].exists
                THEN \E h \in SeqRange(hosts) :
                        /\ h.status = "active"
                        /\ Requested(h.environment)
                        /\ n = [stem |-> CanonicalKey(h), ext |-> "yml"]
                ELSE n.ext = "yml" /\ ~NamesRecord(n.stem)

SubsetResult ==
    (pc = "idle" /\ result.status = "success") =>
       SeqRange(result.generated_files) \subseteq RequestedFiles

\* C16: a call with an explicit environment list writes tree files and
\* host-variable files only for records of the requested environments and
\* lists only their tree files in generated_files, and its reconciliation
\* deletes no host-variable file named after the hostname or the cname of a
\* loaded record of any environment.
SubsetGeneration == [][SubsetStep]_vars /\ []SubsetResult

\* a call for production only has returned; the tree file and the
\* host-variable file of a development record, written by an earlier call,
\* went through the cleanup and are as they were
SubsetGenerationWitness ==
    /\ RunDone /\ runs = 2
    /\ target_environments = <<"PRD">>
    /\ cleanup_enabled
    /\ result.generated_files = <<"production.yml">>
    /\ tree_files["development.yml"].exists
    /\ tree_files["development.yml"].mtime < history.start_time
    /\ \E h \in SeqRange(hosts) :
          /\ h.environment = "development" /\ h.status = "active"
          /\ \A k \in SeqRange(hosts) : k.environment = "production" => CanonicalKey(k) # CanonicalKey(h)
          /\ host_vars_dir[[stem |-> CanonicalKey(h), ext |-> "yml"]].exists
          /\ host_vars_dir[[stem |-> CanonicalKey(h), ext |-> "yml"]].mtime < history.start_time

(***************************************************************************)
(* Properties of the reconciler when a deletion fails.                     *)
(***************************************************************************)
\* C19: per-file recovery in reconciliation.  In a pass that is not a dry
\* run, an orphan whose unlink raises is left in place and every other
\* orphan is deleted; the returned count is the number of files removed.
\* The count of a dry run is the number of all orphans found.
PerFileRecovery ==
    (AfterCleanup /\ cleanup_enabled) =>
       IF dry_run
       THEN orphaned_count = Cardinality(OrphansBefore)
       ELSE /\ \A n \in OrphansBefore :
                  IF n \in unlink_fails
                  THEN Bytes(host_vars_dir[n]) = history.snapshot.host_vars[n]
                  ELSE ~host_vars_dir[n].exists
            /\ orphaned_count = Cardinality(OrphansBefore \ unlink_fails)

\* of two orphans one could not be deleted: it is in place, the other is
\* gone and the count is 1
PerFileRecoveryWitness ==
    /\ AfterCleanup /\ cleanup_enabled /\ ~dry_run
    /\ Cardinality(OrphansBefore) = 2
    /\ Cardinality(OrphansBefore \cap unlink_fails) = 1
    /\ orphaned_count = 1
    /\ \E n \in OrphansBefore : host_vars_dir[n].exists
    /\ \E n \in OrphansBefore : ~host_vars_dir[n].exists

\* a dry run counted two orphans of which one cannot be deleted
DryRunCountsAllReached ==
    /\ AfterCleanup /\ cleanup_enabled /\ dry_run
    /\ orphaned_count = 2
    /\ Cardinality(OrphansBefore \cap unlink_fails) = 1

(***************************************************************************)
(* Properties of concurrent and of terminated calls.                       *)
(***************************************************************************)
AllDone == \A w \in Workers : workers[w].pc = "done"

Succeeded == {w \in Workers : workers[w].result.status = "success"}

ConcurrentRunsResult ==
    AllDone =>
       /\ \A w \in Workers : workers[w].result.status \in {"success", "error"}
       /\ ~FatalLoad => Succeeded # {}
       /\ \A v, w \in Succeeded : workers[v].total_hosts = workers[w].total_hosts

OwnersOf(hs, n) ==
    {h \in SeqRange(hs) : h.status = "active" /\ n = [stem |-> CanonicalKey(h), ext |-> "yml"]}

\* the environments whose tree goes to the file
EnvironmentsOf(hs, f) ==
    {e \in SeqRange(ConfigEnvironments) : YmlName(e) = f /\ RecordsOf(hs, e) # {}}

ExpectedBodyOf(hs, environment) ==
    DumpInventory(FilterInventory(
        ExpectedTree(SelectSeq(hs, LAMBDA h : h.status = "active"), environment)))

IsCompleteTreeFile(file, hs, f) ==
    /\ file.exists
    /\ ReadTree(file).has_timestamp
    /\ ReadTree(file).has_content
    /\ \E e \in EnvironmentsOf(hs, f) :
          ReadTree(file).existing_yaml_content = ExpectedBodyOf(hs, e)

IsCompleteHostVarsFile(file, hs, n) ==
    /\ HasHeaderBlock(file)
    /\ \E h \in OwnersOf(hs, n) : BodyAfterHeader(file) = DumpHostVars(h)

\* C18: no file is exposed partially written.  At every moment every tree
\* file and every host-variable file is absent, has the content it had
\* before the calls, or has the complete content a call writes.
NoPartialFile ==
    LET hs == load_hosts(csv, inventory_key)
    IN  /\ \A f \in TreeFileNames :
              \/ Bytes(tree_files[f]) = history.snapshot.tree[f]
              \/ IsCompleteTreeFile(tree_files[f], hs, f)
        /\ \A n \in HostVarsNames :
              \/ ~host_vars_dir[n].exists
              \/ Bytes(host_vars_dir[n]) = history.snapshot.host_vars[n]
              \/ IsCompleteHostVarsFile(host_vars_dir[n], hs, n)

\* the output directories hold what a complete call produces from the
\* directories as they were at the start: the tree of every environment
\* with records, the host-variable file of every active record, no orphan,
\* and every other file as it was
CompleteOutput(hs) ==
    /\ \A f \in TreeFileNames :
          IF EnvironmentsOf(hs, f) # {}
          THEN IsCompleteTreeFile(tree_files[f], hs, f)
          ELSE Bytes(tree_files[f]) = history.snapshot.tree[f]
    /\ \A n \in HostVarsNames :
          IF OwnersOf(hs, n) # {}
          THEN IsCompleteHostVarsFile(host_vars_dir[n], hs, n)
          ELSE IF /\ cleanup_enabled /\ n.ext = "yml" /\ n \notin unlink_fails
                  /\ \A h \in SeqRange(hs) : n.stem # h.hostname /\ n.stem # h.cname
               THEN ~host_vars_dir[n].exists
               ELSE Bytes(host_vars_dir[n]) = history.snapshot.host_vars[n]

\* the call of the worker is the last one and has returned "success"
LastRunDone(w) ==
    /\ workers[w].pc = "done"
    /\ workers[w].result.status = "success"
    /\ \A v \in Workers : v > w => workers[v].pc = "waiting"

\* C20: recovery by re-run.  A complete call that follows a call terminated
\* at any point, between two file operations or with a file open for
\* writing, leaves the same tree files and host-variable files, with the
\* same bodies, as a call that was not interrupted; a truncated file is
\* written again.
RecoveryByRerun ==
    \A w \in Workers : LastRunDone(w) => CompleteOutput(workers[w].hosts)

\* the first call was terminated with a host-variable file open for
\* writing and the second call has returned
RecoveryByRerunWitness ==
    /\ workers[1].pc = "terminated"
    /\ workers[1].crashed_at = "host_vars_write"
    /\ LastRunDone(2)
    /\ Cardinality({n \in HostVarsNames : host_vars_dir[n].exists /\ n.stem # "old01"}) = 2

\* the first call was terminated with a tree file open for writing
TreeWriteCrashRecovered ==
    /\ workers[1].pc = "terminated"
    /\ workers[1].crashed_at = "tree_write"
    /\ LastRunDone(2)

\* the first call was not interrupted
UninterruptedRunDone == LastRunDone(1)

(***************************************************************************)
(* Properties of the order of the steps of a call.                         *)
(***************************************************************************)
\* the steps of generate_inventories in their order: the call, LoadRecords
\* (with the fail-fast return), ReconcileOrphans, the loop over the
\* environments with the host-variable writes and the tree write of each,
\* and the return (Aggregate, Done)
OrderedSteps ==
    { <<"idle", "load">>, <<"load", "idle">>, <<"load", "cleanup">>,
      <<"cleanup", "environment">>, <<"environment", "environment">>,
      <<"environment", "host_vars">>, <<"host_vars", "host_vars">>,
      <<"host_vars", "environment">>, <<"environment", "idle">>, <<"idle", "idle">> }

StepsInOrder ==
    /\ <<pc, pc'>> \in OrderedSteps
    \* the pass over the orphans is one step, entered from the load only,
    \* and the loop starts at the first environment after it
    /\ pc = "cleanup" => pc' = "environment" /\ env_index' = 1
    /\ pc' = "cleanup" => hosts' # <<>> /\ host_vars_dir' = host_vars_dir
    \* before the pass nothing is written
    /\ pc = "load" => diskVars' = diskVars
    \* files are written inside the loop only, and deleted by the pass only
    /\ (pc # "idle" /\ tree_files' # tree_files) => pc = "host_vars"
    /\ (pc # "idle" /\ host_vars_dir' # host_vars_dir) => pc \in {"cleanup", "host_vars"}
    /\ (pc = "host_vars" /\ host_vars_dir' # host_vars_dir) =>
          \A n \in HostVarsNames : host_vars_dir[n].exists => host_vars_dir'[n].exists
    \* the successful result is made after the last environment
    /\ (pc # "idle" /\ result'.status = "success") =>
          /\ pc = "environment"
          /\ env_index > Len(target_environments)
          /\ result'.orphaned_files_removed = orphaned_count
          /\ result'.generated_files = generated_files

\* when the first file of an environment is written the pass is over: no
\* orphan that can be deleted is left
ReconciledBeforeWrites ==
    (pc = "host_vars" /\ cleanup_enabled /\ ~dry_run) =>
       orphaned_files(host_vars_dir, hosts) \subseteq unlink_fails

\* C21: orchestrator ordering.  Every call of generate_inventories goes
\* through load, reconciliation, the loop over the environments (host
\* variables, then tree, of each) and the return, in that order: the
\* reconciliation runs once, after the load and before the first write, and
\* the result is made after the last environment.
OrchestratorOrdering == [][StepsInOrder]_vars /\ []ReconciledBeforeWrites

\* a call that deleted an orphan, wrote host-variable files and a tree has
\* returned
OrchestratorOrderingWitness ==
    /\ pc = "idle"
    /\ result.status = "success"
    /\ result.orphaned_files_removed = 1
    /\ result.generated_files # <<>>
    /\ history.host_vars_calls # {}

(***************************************************************************)
(* Properties of the dry run of the generate command.                      *)
(***************************************************************************)
\* a call that wrote the files has just returned and the source is as the
\* call read it
RealRunDone ==
    /\ pc = "idle"
    /\ csv_exists
    /\ history.last_run.status = "success"
    /\ ~history.last_run.dry_run
    /\ history.changes = 0

\* C22: dry-run prediction agrees with the real run.  For the same source
\* records and the same requested environments, full names or short codes,
\* the number of inventory files the dry run of the generate command
\* predicts is the number of tree files the real run lists in
\* generated_files.
DryRunPrediction ==
    RealRunDone =>
       dry_run_generate(history.args, load_hosts(csv, inventory_key)).inventory_files
          = Len(result.generated_files)

(***************************************************************************)
(* Properties of the statistics.                                           *)
(***************************************************************************)
\* the groups of a kind in the trees of the environments the call generated
GroupsOfRun(kind) ==
    UNION { {g \in DOMAIN build_environment_inventory(
                          ActiveHosts(EnvHosts(hosts, target_environments[i])),
                          EnvName(target_environments[i]), inventory_key) : g.kind = kind}
            : i \in {j \in 1..Len(target_environments) :
                       InventoryFilename(target_environments[j]) \in SeqRange(generated_files)} }

\* C23: run-wide statistics.  After a call that generated several
\* environments the application-group and product-group counts of the
\* result cover the groups of all generated environments.
RunWideStatistics ==
    (RealRunDone /\ generated_files # <<>>) =>
       /\ application_groups(inventory) = Cardinality(GroupsOfRun("app"))
       /\ product_groups(inventory) = Cardinality(GroupsOfRun("product"))

(***************************************************************************)
(* Properties of the product groups.                                       *)
(***************************************************************************)
TreeBuilt == pc = "tree_built"

\* the active records of the environment the tree was built for
TreeRecords ==
    {r \in SeqRange(hosts) : r.environment = target_environments[1] /\ is_active(r)}

ProductGroupSet(r) == SeqRange(get_product_group_names(r))

TreeKey(r) == get_inventory_key_value(r, inventory_key)

\* C24: product groups are not scoped by their parent application.  Two
\* active records of one environment with the same product id under
\* different application services give one product group that holds both
\* hosts and is a child of both application groups.
ProductGroupsShared ==
    TreeBuilt =>
       \A r1, r2 \in TreeRecords :
          (/\ r1.application_service # "" /\ r2.application_service # ""
           /\ get_app_group_name(r1) # get_app_group_name(r2)) =>
             \A p \in ProductGroupSet(r1) \cap ProductGroupSet(r2) :
                /\ p \in DOMAIN inventory
                /\ {TreeKey(r1), TreeKey(r2)} \subseteq inventory[p].hosts
                /\ p \in inventory[get_app_group_name(r1)].children
                /\ p \in inventory[get_app_group_name(r2)].children

\* web01 under application web and db01 under application db carry product
\* mon: one group product_mon with two hosts under both applications
ProductGroupsSharedWitness ==
    /\ TreeBuilt
    /\ target_environments = <<"production">>
    /\ {Web01, DbMon} \subseteq TreeRecords
    /\ Cardinality(inventory[Group("product", "mon")].hosts) = 2
    /\ Group("product", "mon") \in inventory[Group("app", "web")].children
    /\ Group("product", "mon") \in inventory[Group("app", "db")].children

\* every record of the environment handed to the builder: the builder does
\* not look at the status, its caller hands it the active records only
BuiltRecords == {r \in SeqRange(hosts) : r.environment = target_environments[1]}

\* the records of the tree with an application service that carry product group p
ProductOwners(p) ==
    {r \in BuiltRecords : r.application_service # "" /\ p \in ProductGroupSet(r)}

\* the groups a record without application service is a member of
OwnGroups(r) ==
    {Group("env", r.environment)}
    \cup (IF r.site_code # ""
          THEN {Group("site", ReplaceDash(Lower(r.site_code)))} ELSE {})
    \cup (IF r.batch_number # "" THEN {get_batch_group_name(r)} ELSE {})

\* C30: product groups are made only for hosts that have an application
\* group.  An active record with product ids and no application service
\* creates no product group and is added to none; it appears in the
\* environment group and in its site and batch groups, if any.
ProductGroupsNeedApplication ==
    TreeBuilt =>
       /\ \A p \in {g \in DOMAIN inventory : g.kind = "product"} :
             inventory[p].hosts = {TreeKey(r) : r \in ProductOwners(p)}
       /\ \A r \in BuiltRecords :
             (r.application_service = "" /\ get_product_ids(r) # <<>>) =>
                /\ \A g \in OwnGroups(r) :
                      g \in DOMAIN inventory /\ TreeKey(r) \in inventory[g].hosts
                /\ \A p \in ProductGroupSet(r) :
                      /\ p \in DOMAIN inventory => ProductOwners(p) # {}
                      /\ (p \in DOMAIN inventory /\ TreeKey(r) \in inventory[p].hosts)
                            => \E o \in ProductOwners(p) : TreeKey(o) = TreeKey(r)

\* alias01 has product web and no application service; db01 of the same
\* environment has application web and product web: product_web holds db01 only
ProductGroupsNeedApplicationWitness ==
    /\ TreeBuilt
    /\ target_environments = <<"development">>
    /\ {Alias01, Db01Dev} \subseteq TreeRecords
    /\ inventory[Group("product", "web")].hosts = {TreeKey(Db01Dev)}
    /\ TreeKey(Alias01) \in inventory[Group("env", "development")].hosts
    /\ TreeKey(Alias01) # TreeKey(Db01Dev)

\* C26: no dangling child reference.  In every tree file a run has
\* generated, each group named in the children of a written group is itself
\* a top-level group of the same file and has at least one host.
NoDanglingChild ==
    \A f \in JustGenerated :
       LET tree == safe_load(tree_files[f])
       IN  \A g \in DOMAIN tree :
              \A c \in tree[g].children :
                 c \in DOMAIN tree /\ tree[c].hosts # {}

\* a generated file with an environment group, an application group below it
\* and a product group below the application group
NoDanglingChildWitness ==
    \E f \in JustGenerated :
       LET tree == safe_load(tree_files[f])
       IN  \E g, a, p \in DOMAIN tree :
              /\ g.kind = "env" /\ a.kind = "app" /\ p.kind = "product"
              /\ a \in tree[g].children
              /\ p \in tree[a].children

(***************************************************************************)
(* Reconciliation against the files of the same call.                      *)
(***************************************************************************)
\* the host-variable file names create_host_vars uses for the loaded records
WrittenNames ==
    {get_host_vars_filename(h, inventory_key) :
        h \in {x \in SeqRange(hosts) : is_active(x)}}

\* the reconciliation step deletes no file of an active loaded record, and
\* a file create_host_vars writes is named by a loaded record and, when it
\* was there at the start of the call, is still there
RegeneratedKept ==
    /\ pc = "cleanup" =>
          \A n \in HostVarsNames :
             (host_vars_dir[n].exists /\ ~host_vars_dir'[n].exists) => n \notin WrittenNames
    /\ IsCreateHostVarsStep =>
          \A n \in HostVarsNames :
             host_vars_dir'[n] # host_vars_dir[n] =>
                /\ n \in WrittenNames
                /\ n.ext = "yml" /\ NamesRecord(n.stem)
                /\ history.snapshot.host_vars[n].exists => host_vars_dir[n].exists

\* C25: reconciliation never deletes what the same call regenerates.  Every
\* file name create_host_vars writes is a valid identifier of the
\* reconciliation pass of the call, so no file is deleted and then created
\* again within one call.
NoDeleteThenRecreate == [][RegeneratedKept]_vars

\* a call that removed an orphan and has rewritten a file that was on disk
\* when the call started
NoDeleteThenRecreateWitness ==
    /\ pc = "host_vars"
    /\ cleanup_enabled /\ ~dry_run
    /\ orphaned_count >= 1
    /\ \E h \in history.host_vars_calls :
          LET n == get_host_vars_filename(h, inventory_key)
          IN  /\ history.snapshot.host_vars[n].exists
              /\ Bytes(host_vars_dir[n]) # history.snapshot.host_vars[n]

\* the file is named after a loaded record that is not active
NamesInactiveRecord(n) ==
    /\ n.ext = "yml"
    /\ \E h \in SeqRange(hosts) :
          ~is_active(h) /\ (n.stem = h.hostname \/ n.stem = h.cname)

\* no step of a call deletes an existing file named after a loaded inactive
\* record, and the file is left as it is unless an active record writes it
InactiveKept ==
    pc # "idle" =>
       \A n \in HostVarsNames :
          (host_vars_dir[n].exists /\ NamesInactiveRecord(n)) =>
             /\ host_vars_dir'[n].exists
             /\ n \notin WrittenNames => host_vars_dir'[n] = host_vars_dir[n]

\* C28: reconciliation keeps the files of present but inactive records.  The
\* valid identifiers are the primary and alternate names of every valid
\* record whatever its status, so an existing host-variable file named after
\* a record that is now decommissioned is deleted by no call and rewritten by
\* none.
InactiveRecordsKeepFiles == [][InactiveKept]_vars

\* after a real call with cleanup enabled, the file generated earlier for a
\* record that is now inactive is on disk as it was when the call started
InactiveRecordsKeepFilesWitness ==
    /\ RealRunDone
    /\ cleanup_enabled
    /\ \E n \in HostVarsNames :
          /\ NamesInactiveRecord(n)
          /\ n \notin WrittenNames
          /\ host_vars_dir[n].exists
          /\ Bytes(host_vars_dir[n]) = history.snapshot.host_vars[n]
          /\ n.stem # "old01"

(***************************************************************************)
(* Tree files of environments without records.                             *)
(***************************************************************************)
\* the record has the environment, given by name or by code
InEnvironment(h, env) == h.environment = env \/ h.environment = EnvName(env)

\* the requested environments no loaded record belongs to
EmptyEnvironments ==
    {target_environments[i] : i \in 1..Len(target_environments)}
       \ {env \in {target_environments[i] : i \in 1..Len(target_environments)} :
             \E h \in SeqRange(hosts) : InEnvironment(h, env)}

\* no step of a call deletes a tree file, and no step changes the tree file
\* of a requested environment without a loaded record
TreeFilesStay ==
    pc # "idle" =>
       /\ \A f \in TreeFileNames : tree_files[f].exists => tree_files'[f].exists
       /\ pc # "load" =>
             \A env \in EmptyEnvironments :
                tree_files'[InventoryFilename(env)] = tree_files[InventoryFilename(env)]

\* a call that loaded records ends with success, and an environment without
\* a record has its file as it was at the start and is not in generated_files
EmptyEnvironmentSkipped ==
    (pc = "idle" /\ history.changes = 0 /\ result.status # "none" /\ hosts # <<>>) =>
       /\ result.status = "success"
       /\ \A env \in EmptyEnvironments :
             /\ InventoryFilename(env) \notin SeqRange(result.generated_files)
             /\ Bytes(tree_files[InventoryFilename(env)])
                  = history.snapshot.tree[InventoryFilename(env)]

\* C29: tree files are never deleted.  For a requested environment that has
\* no valid record, generate_inventories writes nothing, leaves the
\* environment out of generated_files without an error, and leaves an
\* existing tree file of that environment unchanged, also when the
\* reconciliation has removed the host-variable files of its former hosts.
TreeFilesNeverDeleted == [][TreeFilesStay]_vars /\ []EmptyEnvironmentSkipped

\* a real call that removed the host-variable file of a former host of an
\* environment that has no record any more and whose tree file is still there
TreeFilesNeverDeletedWitness ==
    /\ RealRunDone
    /\ result.orphaned_files_removed >= 1
    /\ \E env \in EmptyEnvironments :
          /\ tree_files[InventoryFilename(env)].exists
          /\ \E n \in HostVarsNames :
                /\ n.stem \in HostsInGroup(tree_files[InventoryFilename(env)],
                                            Group("env", EnvName(env)))
                /\ history.snapshot.host_vars[n].exists
                /\ ~host_vars_dir[n].exists

(***************************************************************************)
(* Host-variable files and the tree of one environment.                    *)
(***************************************************************************)
HostVarsFileOf(key) == [stem |-> key, ext |-> "yml"]

\* when a step of a call puts a tree file into generated_files,
\* create_host_vars has been called for every active record of the
\* environment, none of the calls has raised, and every host listed in the
\* file has a host-variable file
HostVarsBeforeTree ==
    (pc = "host_vars" /\ generated_files' # generated_files) =>
       LET env == target_environments[env_index]
           tree == safe_load(tree_files'[generated_files'[Len(generated_files')]])
       IN  /\ generated_files'[Len(generated_files')] = InventoryFilename(env)
           /\ SeqRange(ActiveHosts(EnvHosts(hosts, env))) \subseteq history.host_vars_calls
           /\ env \notin history.host_vars_raised
           /\ \A g \in DOMAIN tree :
                 \A key \in tree[g].hosts : host_vars_dir'[HostVarsFileOf(key)].exists

\* the tree file of an environment with a failed host-variable write is not
\* in generated_files and is as it was when the call started
FailedEnvironmentNotWritten ==
    \A env \in history.host_vars_raised :
       /\ InventoryFilename(env) \notin SeqRange(generated_files)
       /\ (pc # "idle" \/ history.changes = 0) =>
             Bytes(tree_files[InventoryFilename(env)])
                = history.snapshot.tree[InventoryFilename(env)]

\* C27: host-variable files precede the tree.  Within the generation of one
\* environment the host-variable write of every active record is attempted
\* before the tree file is written, so every host listed in a tree file a
\* call writes has a host-variable file, and when a host-variable write
\* fails the tree file of that environment is not written in that call.
HostVarsPrecedeTree == [][HostVarsBeforeTree]_vars /\ []FailedEnvironmentNotWritten

\* a call in which the host-variable write of one environment failed and the
\* tree of another environment was written
HostVarsPrecedeTreeWitness ==
    /\ pc = "idle"
    /\ history.changes = 0
    /\ result.status = "success"
    /\ history.host_vars_raised # {}
    /\ result.generated_files # <<>>
    /\ \E f \in SeqRange(result.generated_files) :
          \E g \in DOMAIN safe_load(tree_files[f]) : safe_load(tree_files[f])[g].hosts # {}

====
